---------------------------- MODULE Spec2Model ----------------------------
(***************************************************************************)
(* A model of the MPLADS ingestion scripts:                                *)
(*   - MPLADSApiClient (session manager, report fetch client, cycle        *)
(*     driver), src/unnamed/part_000 lines 1-622;                          *)
(*   - the record transformer, src/unnamed/part_000 lines 624-1012;        *)
(*   - the attachment downloader and the R2 uploader,                      *)
(*     src/upload-scripts/mplads-image-extractor/src/mplads-api.js.        *)
(* Time is counted in hours (the session lifetime is 4 hours).             *)
(***************************************************************************)
EXTENDS Integers, Sequences, FiniteSets, TLC

VARIABLES
    now,            \* Date.now(), in hours
    sessionFile,    \* data/session.json
    sessionCookies, \* this.sessionCookies
    csrfToken,      \* this.csrfToken
    pc,             \* where the running process stands ("off": no process)
    caller,         \* who awaits ensureValidSession: "direct" or "cycle"
    validateRes,    \* what validateSession returned in the current ensureValidSession call
    quickResp,      \* the response makeQuickTestCall saw in that call
    bootstrapCalls, \* initializeSession calls of the current ensureValidSession call
    bootstrapRes,   \* what initializeSession resolved to in that call
    sessionReady,   \* what ensureValidSession returned
    ensureCalls,    \* ensureValidSession calls of the running process
    startup,        \* what the constructor found: whether loadSession ran, and on which file
    req,            \* the report request in flight
    boot,           \* the initializeSession call of the current ensureValidSession call:
                    \* what its GET brought, and the session file when it began
    lsTermOption,   \* fetchAllData's option, lower-cased
    lok18, lok17, rajyaSabhaData, \* fetchAllData's result buckets
    callIdx,        \* which fetchAllDataForHouse call of the cycle is running
    kindIdx,        \* the index in dataTypes that call has reached
    results,        \* that call's results object
    lastFetch,      \* how the last fetchData of the cycle driver ended
    chamberReqs,    \* report requests issued since ensureValidSession returned
    outcome,        \* how fetchAllData ended: "returned" or "threw"
    dlPc,           \* downloadImageData: "idle", "request", "sleep", "returned", "threw"
    attempt,        \* its loop variable
    dlErrors,       \* the errors its attempts were rejected with, in order
    dlDelays,       \* the delays it slept, in ms, in order
    dlRequests,     \* the POST requests it issued
    dlThrown,       \* the error it threw
    fPc,            \* a fetchData call made on its own: "idle", "sent", "settled"
    fArgs,          \* its arguments
    fReq,           \* the request it sent
    fResp,          \* the response it got
    fResult,        \* what its promise settled to
    rowsIn,         \* the rows handed to one transform
    rowCall,        \* that call: which transform, and its other arguments
    rowsOut,        \* what it returned
    r2Objects,      \* the keys of the objects in the R2 bucket
    attempted,      \* the (workId, phase, attachmentId) uploadImageToR2 was called with
    uploaded,       \* those for which uploadImageToR2 returned
    stCall,         \* the last call of the uploader and how it ended
    apiData,        \* the input of transformAllData
    trOptions,      \* its options
    trPc,           \* transformAllData: "input", "done"
    trResults,      \* what transformAllData returned
    wiCall,         \* the last getWorkImages call: arguments, requests, result
    mdNow,          \* the local date and time of the metadata manager's clock
    mdDocs,         \* the documents of the data_sync_metadata collection
    mdCall,         \* the last call of the metadata manager and what it returned
    plPc,           \* testSingleWork: "start", "images", "download", "upload", "done"
    testWorks,      \* the works it tests
    plWork,         \* the position in testWorks of the work it is testing
    testImages,     \* the images of that work it tests
    plImage,        \* the position in testImages of the image it is testing
    plLog,          \* what it has done so far: lookups, downloads, uploads
    pIn,            \* the text handed to parseIndianNumber or to parseDate
    pCall,          \* that call and what it returned
    email,          \* the mailing-list form: the text of its e-mail field
    loading,        \* whether a submission is in progress
    submitted,      \* whether a subscription request has succeeded
    alreadySubscribed, \* whether the last request was answered 409
    inlineError,    \* the error shown under the field, '' for none
    mlPc,           \* handleSubmit: "idle", "pending" (awaiting the request)
    mlSubmits,      \* submit events the form has received
    mlSent,         \* subscribe requests it has sent
    mlToast,        \* the last toast shown, '' for none
    mlAnswer        \* how the last request settled

sessionVars == <<now, sessionFile, sessionCookies, csrfToken, pc, caller,
                 validateRes, quickResp, bootstrapCalls, bootstrapRes, sessionReady,
                 ensureCalls, startup, req, boot>>

cycleVars == <<lsTermOption, lok18, lok17, rajyaSabhaData, callIdx, kindIdx, results,
               lastFetch, chamberReqs, outcome>>

clientVars == <<sessionVars, cycleVars>>

dlVars == <<dlPc, attempt, dlErrors, dlDelays, dlRequests, dlThrown>>

storeVars == <<r2Objects, attempted, uploaded, stCall>>

trVars == <<apiData, trOptions, trPc, trResults>>

fetchVars == <<fPc, fArgs, fReq, fResp, fResult>>

rowVars == <<rowsIn, rowCall, rowsOut>>

imgVars == <<wiCall>>

\* The components added after the client, the uploader and the transformer.
mdVars == <<mdNow, mdDocs, mdCall>>

plVars == <<plPc, testWorks, plWork, testImages, plImage, plLog>>

parseVars == <<pIn, pCall>>

mailVars == <<email, loading, submitted, alreadySubscribed, inlineError, mlPc, mlSubmits,
              mlSent, mlToast, mlAnswer>>

moreVars == <<imgVars, mdVars, plVars, parseVars, mailVars>>

nonClientVars == <<dlVars, storeVars, trVars, fetchVars, rowVars, moreVars>>
nonDlVars == <<clientVars, storeVars, trVars, fetchVars, rowVars, moreVars>>
nonStoreVars == <<clientVars, dlVars, trVars, fetchVars, rowVars, moreVars>>
nonTrVars == <<clientVars, dlVars, storeVars, fetchVars, rowVars, moreVars>>
nonFetchVars == <<clientVars, dlVars, storeVars, trVars, rowVars, moreVars>>
nonRowVars == <<clientVars, dlVars, storeVars, trVars, fetchVars, moreVars>>
oldVars == <<clientVars, dlVars, storeVars, trVars, fetchVars, rowVars>>
nonImgVars == <<oldVars, mdVars, plVars, parseVars, mailVars>>
nonMdVars == <<oldVars, imgVars, plVars, parseVars, mailVars>>
nonPlVars == <<oldVars, imgVars, mdVars, parseVars, mailVars>>
nonParseVars == <<oldVars, imgVars, mdVars, plVars, mailVars>>
nonMailVars == <<oldVars, imgVars, mdVars, plVars, parseVars>>

vars == <<oldVars, moreVars>>

(***************************************************************************)
(* Bounds and program constants.                                           *)
(***************************************************************************)
\* The clock runs from StartTime to MaxTime.
MaxTime == 6

\* ensureValidSession calls one process makes on its own.
MaxCalls == 2

\* Date.now() is never 0.
StartTime == 1

\* 4 * 60 * 60 * 1000 ms, in hours.
SessionTTL == 4

Null == "null"

\* Cookie strings: what the portal sets, and what a caller may hand to the constructor.
PortalCookies == {"JSESSIONID=p1"}
GivenCookies == {"JSESSIONID=g1"}

\* A value not yet computed in the current call.
Unset == "unset"

Tri(b) == IF b THEN "true" ELSE "false"

(***************************************************************************)
(* The session file.                                                       *)
(***************************************************************************)
NoFile == [exists |-> FALSE, cookies |-> Null, csrfToken |-> "", timestamp |-> 0]

SessionData(cookies, csrf, ts) ==
    [exists |-> TRUE, cookies |-> cookies, csrfToken |-> csrf, timestamp |-> ts]

\* A freshness test that also accepts a file exactly 4 hours old.
SessionFreshInclusive(file, t) ==
    /\ file.timestamp # 0
    /\ (t - file.timestamp) <= SessionTTL

\* loadSession's test of a parsed file: timestamp is truthy and less than 4 hours old.
SessionFresh(file, t) ==
    /\ file.timestamp # 0
    /\ (t - file.timestamp) < SessionTTL

\* loadSession: <<sessionCookies, csrfToken, sessionFile>> after the call.
loadSession(file, cookies, csrf, t) ==
    IF file.exists
    THEN IF SessionFresh(file, t)
         THEN <<file.cookies, file.csrfToken, file>>
         ELSE <<cookies, csrf, NoFile>>
    ELSE <<cookies, csrf, file>>

\* saveSession: the file written (fs.writeFileSync may fail, which is only logged).
saveSession(file, cookies, csrf, t, written) ==
    IF written THEN SessionData(cookies, csrf, t) ELSE file

(***************************************************************************)
(* makeQuickTestCall and validateSession.                                  *)
(***************************************************************************)
NoResp == [net |-> "none", status |-> 0, body |-> "none"]

\* What the portal may answer to the quick test call.  body: what JSON.parse makes
\* of the data ("malformed": it throws).
QuickBodies == {"object", "array", "string", "number", "null", "malformed"}

QuickResponses ==
    {[net |-> "ok", status |-> s, body |-> b] : s \in {200, 302, 401, 500}, b \in QuickBodies}
    \cup {[net |-> "error", status |-> 0, body |-> "none"],
          [net |-> "timeout", status |-> 0, body |-> "none"]}

\* response && typeof response === 'object'
TruthyObject(body) == body \in {"object", "array"}

\* A quick test call that does not look at the status code.
makeQuickTestCallAnyStatus(resp) ==
    /\ resp.net = "ok"
    /\ resp.body # "malformed"
    /\ TruthyObject(resp.body)

\* makeQuickTestCall: what the promise resolves to (it never rejects).
makeQuickTestCall(resp) ==
    /\ resp.net = "ok"
    /\ resp.status = 200
    /\ resp.body # "malformed"
    /\ TruthyObject(resp.body)

\* validateSession: "true" | "false" | "throw", given what the quick test call did
\* ("reject" stands for a rejected promise, which the try/catch turns into false).
validateSession(cookies, quick) ==
    IF cookies = Null THEN "false"
    ELSE IF quick = "reject" THEN "false"
    ELSE quick

(***************************************************************************)
(* initializeSession.                                                      *)
(***************************************************************************)
\* What the GET of the portal root may bring: the cookies joined from the
\* set-cookie headers ("" when none is valid), no set-cookie header at all, a
\* request error, or the 30 s timeout.
BootstrapOutcomes ==
    {[kind |-> "headers", cookies |-> c] : c \in PortalCookies \cup {""}}
    \cup {[kind |-> k, cookies |-> ""] : k \in {"noheaders", "error", "timeout"}}

\* What the GET brought, as initializeSession tells the cases apart.
Brought(o) ==
    IF o.kind = "headers"
    THEN IF o.cookies = "" THEN "nocookies" ELSE "cookies"
    ELSE o.kind

\* A test that takes any set-cookie header for a session.
GotHeaders(o) == o.kind = "headers"

\* if (setCookieHeaders && setCookieHeaders.length > 0) ... if (cookies)
GotCookies(o) == o.kind = "headers" /\ o.cookies # ""

(***************************************************************************)
(* Strings of the report protocol, as sequences of characters, so that     *)
(* toLowerCase and includes are computed and not assumed.                  *)
(***************************************************************************)
LowerChar(c) ==
    CASE c = "A" -> "a" [] c = "C" -> "c" [] c = "E" -> "e" [] c = "L" -> "l"
      [] c = "R" -> "r" [] c = "T" -> "t" [] c = "W" -> "w" [] c = "X" -> "x"
      [] c = "G" -> "g" [] c = "O" -> "o" [] c = "S" -> "s"
      [] OTHER -> c

toLowerCase(s) == [i \in DOMAIN s |-> LowerChar(s[i])]

\* s.includes(sub)
includes(s, sub) ==
    \E i \in 0..(Len(s) - Len(sub)) : SubSeq(s, i + 1, i + Len(sub)) = sub

KeyCompleted == <<"T","o","t","a","l"," ","W","o","r","k","s"," ","C","o","m","p","l","e","t","e","d">>
KeyRecommended == <<"T","o","t","a","l"," ","W","o","r","k","s"," ","R","e","c","o","m","m","e","n","d","e","d">>
KeyExpenditure == <<"T","o","t","a","l"," ","E","x","p","e","n","d","i","t","u","r","e">>
KeyAllocated == <<"A","l","l","o","c","a","t","e","d"," ","L","i","m","i","t">>

\* fetchAllDataForHouse's dataTypes, in its order.
dataTypes == <<"works_completed", "works_recommended", "expenditure", "allocated_limit">>

DataTypeSet == {dataTypes[i] : i \in DOMAIN dataTypes}

\* dataTypeMap, with %20 already decoded (expectedKey).
dataTypeMap(dataType) ==
    CASE dataType = "works_completed" -> KeyCompleted
      [] dataType = "works_recommended" -> KeyRecommended
      [] dataType = "expenditure" -> KeyExpenditure
      [] dataType = "allocated_limit" -> KeyAllocated

\* A combo in which the term selector follows the code of either house.
houseComboAnyHouse(house, lsTerm) ==
    IF lsTerm = "17"
    THEN IF house = "lok_sabha" THEN "0,0,0,2,5" ELSE "0,0,0,1,5"
    ELSE IF house = "lok_sabha" THEN "0,0,0,2" ELSE "0,0,0,1"

\* The combo parameter of fetchData, decoded.
houseCombo(house, lsTerm) ==
    IF house = "lok_sabha"
    THEN IF lsTerm = "17" THEN "0,0,0,2,5" ELSE "0,0,0,2"
    ELSE "0,0,0,1"

NoReq == [combo |-> "", key |-> <<>>, cookie |-> Null, csrf |-> ""]

\* The request fetchData sends: the Cookie header only when there are cookies, and
\* no X-CSRF-Token header.
fetchRequest(house, dataType, lsTerm, cookies) ==
    [combo |-> houseCombo(house, lsTerm), key |-> dataTypeMap(dataType),
     cookie |-> cookies, csrf |-> ""]

\* The request makeQuickTestCall sends.
quickRequest(cookies, csrf) ==
    [combo |-> "0,0,0,2", key |-> KeyCompleted, cookie |-> cookies, csrf |-> csrf]

(***************************************************************************)
(* JSON values of a report response.  t: the JSON type; a: the array (of   *)
(* opaque rows) an array holds or a string decodes to; dec: what           *)
(* JSON.parse makes of a string ("array", "value": other JSON, "throws");  *)
(* truthy: the value's truthiness in JavaScript.                           *)
(***************************************************************************)
JArray(a) == [t |-> "array", a |-> a, dec |-> "none", truthy |-> TRUE]
JStringOfArray(a) == [t |-> "string", a |-> a, dec |-> "array", truthy |-> TRUE]
JStringOfValue == [t |-> "string", a |-> <<>>, dec |-> "value", truthy |-> TRUE]
JStringGarbage == [t |-> "string", a |-> <<>>, dec |-> "throws", truthy |-> TRUE]
JStringEmpty == [t |-> "string", a |-> <<>>, dec |-> "throws", truthy |-> FALSE]
JNumber == [t |-> "number", a |-> <<>>, dec |-> "none", truthy |-> TRUE]
JZero == [t |-> "number", a |-> <<>>, dec |-> "none", truthy |-> FALSE]
JNull == [t |-> "null", a |-> <<>>, dec |-> "none", truthy |-> FALSE]
JObject == [t |-> "object", a |-> <<>>, dec |-> "none", truthy |-> TRUE]

\* Arrays of rows a report may hold.
Rows == {<<>>, <<"row1">>}

\* A response: how the request ended, what JSON.parse(data) gave ("throws" or a
\* value) and, for an object, its keys in Object.keys order with their values.
Body(top, fields) == [net |-> "ok", parse |-> "ok", top |-> top, fields |-> fields]
BodyMalformed == [net |-> "ok", parse |-> "throws", top |-> JNull, fields |-> <<>>]
NetError == [net |-> "error", parse |-> "none", top |-> JNull, fields |-> <<>>]
NetTimeout == [net |-> "timeout", parse |-> "none", top |-> JNull, fields |-> <<>>]

Field(k, v) == [k |-> k, v |-> v]

(***************************************************************************)
(* fetchData: the unwrapping of a response.                                *)
(***************************************************************************)
Resolve(a) == [ok |-> TRUE, data |-> a, error |-> ""]
Reject(e) == [ok |-> FALSE, data |-> <<>>, error |-> e]

\* The index in fields of the key equal to key, 0 when there is none.
KeyIndex(fields, key) ==
    IF \E i \in DOMAIN fields : fields[i].k = key
    THEN CHOOSE i \in DOMAIN fields : fields[i].k = key
    ELSE 0

\* key.toLowerCase().includes(expectedKey.toLowerCase()) ||
\* expectedKey.toLowerCase().includes(key.toLowerCase())
PartialMatch(key, expectedKey) ==
    \/ includes(toLowerCase(key), toLowerCase(expectedKey))
    \/ includes(toLowerCase(expectedKey), toLowerCase(key))

\* The first key, in Object.keys order, that matches partially; 0 when none does.
FirstPartial(fields, expectedKey) ==
    LET hits == {i \in DOMAIN fields : PartialMatch(fields[i].k, expectedKey)}
    IN IF hits = {} THEN 0 ELSE CHOOSE i \in hits : \A j \in hits : i <= j

\* rawData: the index in fields of the value fetchData picks, 0 for null.  Only an
\* object has keys that can match (a string's keys are its indices).
RawDataIndex(resp, expectedKey) ==
    LET fields == IF resp.top.t = "object" THEN resp.fields ELSE <<>>
        exact == KeyIndex(fields, expectedKey)
    IN IF resp.top.truthy /\ exact # 0 /\ fields[exact].v.truthy
       THEN exact
       ELSE IF resp.top.truthy THEN FirstPartial(fields, expectedKey) ELSE 0

\* An unwrapping that takes a value that is neither a string nor an array for an
\* empty report.
UnwrapRawLenient(raw) ==
    IF raw.t = "null" THEN Reject("No matching data key found in API response")
    ELSE IF raw.t = "string"
    THEN IF raw.dec = "throws" THEN Reject("Failed to parse API response")
         ELSE IF raw.dec # "array" THEN Reject("Expected array")
         ELSE Resolve(raw.a)
    ELSE IF raw.t = "array" THEN Resolve(raw.a)
    ELSE Resolve(<<>>)

\* An unwrapping that decodes no string.
UnwrapRawNoDecode(raw) ==
    IF raw.t = "null" THEN Reject("No matching data key found in API response")
    ELSE IF raw.t = "array" THEN Resolve(raw.a)
    ELSE Reject("Unexpected data format from API")

\* What fetchData makes of rawData.
UnwrapRaw(raw) ==
    IF raw.t = "null" THEN Reject("No matching data key found in API response")
    ELSE IF raw.t = "string"
    THEN IF raw.dec = "throws" THEN Reject("Failed to parse API response")
         ELSE IF raw.dec # "array" THEN Reject("Expected array")
         ELSE Resolve(raw.a)
    ELSE IF raw.t = "array" THEN Resolve(raw.a)
    ELSE Reject("Unexpected data format from API")

\* fetchData: what the promise settles to for a response.
fetchData(resp, dataType) ==
    IF resp.net = "error" THEN Reject("network error")
    ELSE IF resp.net = "timeout" THEN Reject("Timeout fetching")
    ELSE IF resp.parse = "throws" THEN Reject("Failed to parse API response")
    ELSE IF resp.top.t = "array" THEN Resolve(resp.top.a)
    ELSE IF resp.top.t = "string" /\ resp.top.dec = "array" THEN Resolve(resp.top.a)
    ELSE LET idx == RawDataIndex(resp, dataTypeMap(dataType))
         IN IF idx = 0
            THEN Reject("No matching data key found in API response")
            ELSE UnwrapRaw(resp.fields[idx].v)

\* Responses the portal may give to a report request for dataType.
FetchResponses(dataType) ==
    LET key == dataTypeMap(dataType)
        other == IF dataType = "allocated_limit" THEN KeyExpenditure ELSE KeyAllocated
    IN {NetError, NetTimeout, BodyMalformed}
       \cup {Body(JArray(a), <<>>) : a \in Rows}
       \cup {Body(JStringOfArray(a), <<>>) : a \in Rows}
       \cup {Body(v, <<>>) : v \in {JStringGarbage, JNull, JNumber}}
       \cup {Body(JObject, <<Field(key, v)>>) :
                v \in {JArray(a) : a \in Rows} \cup {JStringOfArray(a) : a \in Rows}
                      \cup {JStringOfValue, JStringGarbage, JNumber, JNull, JObject}}
       \cup {Body(JObject, <<Field(toLowerCase(key), JArray(a))>>) : a \in Rows}
       \cup {Body(JObject, <<Field(other, JArray(<<"row1">>))>>),
             Body(JObject, <<>>)}
       \cup {Body(JObject, <<Field(toLowerCase(key), JNumber), Field(key, JArray(<<"row1">>))>>),
             Body(JObject, <<Field(key, JZero), Field(toLowerCase(key), JArray(<<"row1">>))>>),
             Body(JObject, <<Field(toLowerCase(key), JNumber),
                             Field(SubSeq(key, 1, 5), JArray(<<"row1">>))>>),
             Body(JObject, <<Field(toLowerCase(key), JArray(<<"row1">>)), Field(key, JZero)>>),
             Body(JObject, <<Field(toLowerCase(key), JArray(<<"row1">>)),
                             Field(key, JStringEmpty)>>)}

\* testSession: testData && testData.length > 0, false on an exception.
testSession(res) == res.ok /\ Len(res.data) > 0

NoBoot == [got |-> "none", file |-> NoFile]

ResetCall ==
    /\ boot' = NoBoot
    /\ validateRes' = Unset
    /\ quickResp' = NoResp
    /\ bootstrapCalls' = 0
    /\ bootstrapRes' = Unset
    /\ sessionReady' = Unset

NoStartup == [loaded |-> FALSE, file |-> NoFile]

(***************************************************************************)
(* The client: constructor and ensureValidSession.                         *)
(***************************************************************************)
\* new MPLADSApiClient(sessionCookies): loadSession runs only when no cookies are given.
Construct(given) ==
    /\ UNCHANGED nonClientVars
    /\ pc = "off"
    /\ UNCHANGED cycleVars
    /\ LET l == IF given = Null
                THEN loadSession(sessionFile, given, "", now)
                ELSE <<given, "", sessionFile>>
       IN /\ sessionCookies' = l[1]
          /\ csrfToken' = l[2]
          /\ sessionFile' = l[3]
    /\ startup' = [loaded |-> (given = Null), file |-> sessionFile]
    /\ pc' = "idle"
    /\ caller' = "none"
    /\ ensureCalls' = 0
    /\ req' = NoReq
    /\ ResetCall
    /\ UNCHANGED now

\* An ensureValidSession that initializes a new session whatever validateSession said.
AlwaysBootstrap(v) == TRUE

\* ensureValidSession: whether a validateSession result sends it on to initializeSession.
NeedsBootstrap(v) == v # "true"

\* Where ensureValidSession returns to.
ReturnPc == IF caller = "direct" THEN "idle" ELSE "ensured"

\* ensureValidSession up to its first request: validateSession without cookies is
\* false at once, and initializeSession sends its GET.
BeginEnsure ==
    /\ quickResp' = NoResp
    /\ bootstrapRes' = Unset
    /\ sessionReady' = Unset
    /\ ensureCalls' = ensureCalls + 1
    /\ IF sessionCookies = Null
       THEN /\ validateRes' = validateSession(sessionCookies, "false")
            /\ bootstrapCalls' = 1
            /\ boot' = [got |-> "none", file |-> sessionFile]
            /\ req' = NoReq
            /\ pc' = "bootstrap"
       ELSE /\ validateRes' = Unset
            /\ bootstrapCalls' = 0
            /\ boot' = NoBoot
            /\ req' = quickRequest(sessionCookies, csrfToken)
            /\ pc' = "validate"
    /\ UNCHANGED <<now, sessionFile, sessionCookies, csrfToken, startup>>

\* A caller other than the cycle driver awaits ensureValidSession.
CallEnsure ==
    /\ UNCHANGED nonClientVars
    /\ pc = "idle"
    /\ ensureCalls < MaxCalls
    /\ caller' = "direct"
    /\ BeginEnsure
    /\ UNCHANGED cycleVars

\* The quick test call settles: validateSession returns, and ensureValidSession
\* returns true or goes on to initializeSession.
QuickTestDone(resp) ==
    /\ UNCHANGED nonClientVars
    /\ pc = "validate"
    /\ UNCHANGED cycleVars
    /\ quickResp' = resp
    /\ LET v == validateSession(sessionCookies, Tri(makeQuickTestCall(resp)))
       IN /\ validateRes' = v
          /\ IF NeedsBootstrap(v)
             THEN /\ bootstrapCalls' = bootstrapCalls + 1
                  /\ boot' = [got |-> "none", file |-> sessionFile]
                  /\ pc' = "bootstrap"
                  /\ sessionReady' = Unset
             ELSE /\ bootstrapCalls' = bootstrapCalls
                  /\ UNCHANGED boot
                  /\ pc' = ReturnPc
                  /\ sessionReady' = "true"
    /\ req' = NoReq
    /\ UNCHANGED <<now, sessionFile, sessionCookies, csrfToken, caller, bootstrapRes,
                   ensureCalls, startup>>

\* The GET of the portal root settles.  With cookies: they are stored, the session
\* is saved and testSession sends its report request; otherwise false.
BootstrapDone(o, written) ==
    /\ UNCHANGED nonClientVars
    /\ pc = "bootstrap"
    /\ UNCHANGED cycleVars
    /\ boot' = [boot EXCEPT !.got = Brought(o)]
    /\ IF GotCookies(o)
       THEN /\ sessionCookies' = o.cookies
            /\ sessionFile' = saveSession(sessionFile, o.cookies, csrfToken, now, written)
            /\ req' = fetchRequest("lok_sabha", "works_completed", "18", o.cookies)
            /\ pc' = "test"
            /\ UNCHANGED <<bootstrapRes, sessionReady>>
       ELSE /\ bootstrapRes' = "false"
            /\ sessionReady' = "false"
            /\ pc' = ReturnPc
            /\ UNCHANGED <<sessionCookies, sessionFile, req>>
    /\ UNCHANGED <<now, csrfToken, caller, validateRes, quickResp, bootstrapCalls,
                   ensureCalls, startup>>

\* testSession's report request settles: initializeSession resolves to its result,
\* which ensureValidSession returns.
TestDone(resp) ==
    /\ UNCHANGED nonClientVars
    /\ pc = "test"
    /\ UNCHANGED cycleVars
    /\ LET r == Tri(testSession(fetchData(resp, "works_completed")))
       IN /\ bootstrapRes' = r
          /\ sessionReady' = r
    /\ pc' = ReturnPc
    /\ req' = NoReq
    /\ UNCHANGED <<now, sessionFile, sessionCookies, csrfToken, caller, validateRes,
                   quickResp, bootstrapCalls, ensureCalls, startup, boot>>

\* The process ends: what it held in memory is gone, the session file stays.
Exit ==
    /\ UNCHANGED nonClientVars
    /\ pc = "idle"
    /\ UNCHANGED cycleVars
    /\ pc' = "off"
    /\ sessionCookies' = Null
    /\ csrfToken' = ""
    /\ caller' = "none"
    /\ ensureCalls' = 0
    /\ startup' = NoStartup
    /\ req' = NoReq
    /\ ResetCall
    /\ UNCHANGED <<now, sessionFile>>

\* Time passes between two runs.
Tick ==
    /\ UNCHANGED nonClientVars
    /\ pc = "off"
    /\ UNCHANGED cycleVars
    /\ now < MaxTime
    /\ now' = now + 1
    /\ UNCHANGED <<sessionFile, sessionCookies, csrfToken, pc, caller, validateRes,
                   quickResp, bootstrapCalls, bootstrapRes, sessionReady, ensureCalls,
                   startup, req, boot>>

(***************************************************************************)
(* The cycle driver: fetchAllData and fetchAllDataForHouse.                *)
(***************************************************************************)
\* The lsTermOption values a caller passes.
Policies == {"17", "18", "both"}

\* Responses of the portal during a cycle.
CycleResponses(dataType) ==
    {NetError, NetTimeout, BodyMalformed,
     Body(JObject, <<Field(KeyAllocated, JNumber)>>)}
    \cup {Body(JArray(a), <<>>) : a \in Rows}
    \cup {Body(JObject, <<Field(dataTypeMap(dataType), JStringOfArray(a))>>) : a \in Rows}

\* let lok18 = { works_completed: [], ... }
EmptyBucket == [k \in DataTypeSet |-> <<>>]

\* const results = {}
NoResults == [k \in {} |-> <<>>]

NoFetch == [kind |-> "none", ok |-> TRUE]

\* A driver that fetches both terms whatever the option.
SelectedAlways(option, call) == TRUE

\* The fetchAllDataForHouse calls fetchAllData makes for an option, in its order.
Selected(option, call) ==
    \/ call = "lok_sabha_18" /\ option \in {"18", "both"}
    \/ call = "lok_sabha_17" /\ option \in {"17", "both"}
    \/ call = "rajya_sabha"

\* A driver that fetches Rajya Sabha before the Lok Sabha terms.
HouseCallsRajyaFirst(option) ==
    SelectSeq(<<"rajya_sabha", "lok_sabha_18", "lok_sabha_17">>,
              LAMBDA c : Selected(option, c))

HouseCalls(option) ==
    SelectSeq(<<"lok_sabha_18", "lok_sabha_17", "rajya_sabha">>,
              LAMBDA c : Selected(option, c))

\* The house and lsTerm arguments of a call (rajya_sabha: lsTerm defaults to '18').
HouseOf(call) == IF call = "rajya_sabha" THEN "rajya_sabha" ELSE "lok_sabha"
TermOf(call) == IF call = "lok_sabha_17" THEN "17" ELSE "18"

\* fetchAllDataForHouse sends the request for dataTypes[i].
SendKind(call, i) ==
    /\ kindIdx' = i
    /\ req' = fetchRequest(HouseOf(call), dataTypes[i], TermOf(call), sessionCookies)
    /\ chamberReqs' = chamberReqs + 1
    /\ pc' = "fetch"

\* fetchAllDataForHouse returned res for calls[callIdx]: the bucket is assigned and
\* fetchAllData goes on to its next call, or returns.
HouseReturns(res) ==
    LET calls == HouseCalls(lsTermOption)
        call == calls[callIdx]
    IN /\ lok18' = IF call = "lok_sabha_18" THEN res ELSE lok18
       /\ lok17' = IF call = "lok_sabha_17" THEN res ELSE lok17
       /\ rajyaSabhaData' = IF call = "rajya_sabha" THEN res ELSE rajyaSabhaData
       /\ IF callIdx < Len(calls)
          THEN /\ callIdx' = callIdx + 1
               /\ results' = NoResults
               /\ SendKind(calls[callIdx + 1], 1)
               /\ UNCHANGED outcome
          ELSE /\ outcome' = "returned"
               /\ pc' = "done"
               /\ req' = NoReq
               /\ results' = res
               /\ UNCHANGED <<callIdx, kindIdx, chamberReqs>>

\* The for loop of fetchAllDataForHouse moves past dataTypes[kindIdx], with res the
\* results so far.
NextKind(res) ==
    IF kindIdx < Len(dataTypes)
    THEN /\ results' = res
         /\ SendKind(HouseCalls(lsTermOption)[callIdx], kindIdx + 1)
         /\ UNCHANGED <<lok18, lok17, rajyaSabhaData, callIdx, outcome>>
    ELSE HouseReturns(res)

\* fetchAllData(lsTermOption) up to the first request of ensureValidSession.
StartCycle(option) ==
    /\ UNCHANGED nonClientVars
    /\ pc = "idle"
    /\ ensureCalls = 0
    /\ caller' = "cycle"
    /\ lsTermOption' = option
    /\ BeginEnsure
    /\ UNCHANGED <<lok18, lok17, rajyaSabhaData, callIdx, kindIdx, results, lastFetch,
                   chamberReqs, outcome>>

\* A driver that goes on whatever ensureValidSession returned.
SessionIgnored(ready) == TRUE

\* Whether fetchAllData goes on after ensureValidSession returned ready.
SessionOk(ready) == ready = "true"

\* ensureValidSession returned to fetchAllData: it throws, or starts its first
\* fetchAllDataForHouse call.
AfterSession ==
    /\ UNCHANGED nonClientVars
    /\ pc = "ensured"
    /\ IF SessionOk(sessionReady)
       THEN /\ lok18' = EmptyBucket
            /\ lok17' = EmptyBucket
            /\ callIdx' = 1
            /\ results' = NoResults
            /\ SendKind(HouseCalls(lsTermOption)[1], 1)
            /\ UNCHANGED outcome
       ELSE /\ outcome' = "threw"
            /\ pc' = "done"
            /\ UNCHANGED <<lok18, lok17, callIdx, results, kindIdx, req, chamberReqs>>
    /\ validateRes' = Unset
    /\ quickResp' = NoResp
    /\ bootstrapCalls' = 0
    /\ bootstrapRes' = Unset
    /\ boot' = NoBoot
    /\ UNCHANGED <<now, sessionFile, sessionCookies, csrfToken, caller, sessionReady,
                   ensureCalls, startup, lsTermOption, rajyaSabhaData, lastFetch>>

\* A catch block that stores the error instead of [].
StoredError(r) == IF r.ok THEN r.data ELSE <<r.error>>

\* What fetchAllDataForHouse stores for a settled fetchData.
StoredResult(r) == IF r.ok THEN r.data ELSE <<>>

\* The request of fetchAllDataForHouse settles.  Resolved: the rows are stored and
\* the 1 s pause starts; rejected: the catch stores [] and the loop goes on at once.
FetchDone(resp) ==
    /\ pc = "fetch"
    /\ LET kind == dataTypes[kindIdx]
           r == fetchData(resp, kind)
           res == [k \in DOMAIN results \cup {kind} |->
                      IF k = kind THEN StoredResult(r) ELSE results[k]]
       IN /\ lastFetch' = [kind |-> kind, ok |-> r.ok]
          /\ IF r.ok
             THEN /\ results' = res
                  /\ pc' = "sleep"
                  /\ req' = NoReq
                  /\ UNCHANGED <<lok18, lok17, rajyaSabhaData, callIdx, kindIdx,
                                 chamberReqs, outcome>>
             ELSE NextKind(res)
    /\ UNCHANGED <<now, sessionFile, sessionCookies, csrfToken, caller, validateRes,
                   quickResp, bootstrapCalls, bootstrapRes, sessionReady, ensureCalls,
                   startup, boot, lsTermOption>>

\* The portal answers the request in flight, or the request fails.
FetchSettles ==
    /\ UNCHANGED nonClientVars
    /\ pc = "fetch"
    /\ \E resp \in CycleResponses(dataTypes[kindIdx]) : FetchDone(resp)

\* The 1 s pause after a resolved fetchData ends.
SleepDone ==
    /\ UNCHANGED nonClientVars
    /\ pc = "sleep"
    /\ NextKind(results)
    /\ UNCHANGED <<now, sessionFile, sessionCookies, csrfToken, caller, validateRes,
                   quickResp, bootstrapCalls, bootstrapRes, sessionReady, ensureCalls,
                   startup, boot, lsTermOption, lastFetch>>

InitCycleVars ==
    /\ lsTermOption = "none"
    /\ lok18 = NoResults
    /\ lok17 = NoResults
    /\ rajyaSabhaData = NoResults
    /\ callIdx = 0
    /\ kindIdx = 0
    /\ results = NoResults
    /\ lastFetch = NoFetch
    /\ chamberReqs = 0
    /\ outcome = "none"

(***************************************************************************)
(* downloadImageData (mplads-api.js).  Delays are in milliseconds.         *)
(***************************************************************************)
\* RETRY_CONFIG
maxRetries == 3
baseDelay == 2000
maxDelay == 10000
retryableErrors == {"ECONNRESET", "ETIMEDOUT", "ENOTFOUND", "ECONNREFUSED", "EAI_AGAIN"}

\* An error an attempt may be rejected with.  class: where it comes from ("network":
\* no response arrived; "http": a response with an error status; "shape": a 2xx
\* response of the wrong shape); code: error.code; status: error.response.status
\* (0: no response); timeoutMsg / resetMsg: whether error.message contains
\* 'timeout' / 'ECONNRESET'.
Err(class, code, status, timeoutMsg, resetMsg) ==
    [class |-> class, code |-> code, status |-> status, timeoutMsg |-> timeoutMsg,
     resetMsg |-> resetMsg, attempt |-> 0]

NoError == Err("none", "", 0, FALSE, FALSE)

NetworkErrors ==
    {Err("network", c, 0, FALSE, FALSE) : c \in {"ETIMEDOUT", "ENOTFOUND", "EAI_AGAIN"}}
    \cup {Err("network", "EHOSTUNREACH", 0, FALSE, FALSE),
          Err("network", "ECONNRESET", 0, FALSE, TRUE),
          \* axios' own timeout: "timeout of 30000ms exceeded"
          Err("network", "ECONNABORTED", 0, TRUE, FALSE)}

HttpErrors ==
    {Err("http", "ERR_BAD_REQUEST", st, FALSE, FALSE) : st \in {400, 401, 404, 429}}
    \cup {Err("http", "ERR_BAD_RESPONSE", st, FALSE, FALSE) : st \in {500, 503}}

\* 'Invalid response format - expected base64 string or array with URL field'
ShapeError == Err("shape", "", 0, FALSE, FALSE)

\* The shapes of response.data in a 2xx response.
DataShapes == {"string", "array_url", "array_no_url", "empty_array", "object", "null"}

\* typeof data === 'string', or a non-empty array whose first element has a URL.
ShapeOk(shape) == shape \in {"string", "array_url"}

\* How one POST of downloadImageData may end.
DownloadOutcomes ==
    {[ok |-> TRUE, shape |-> sh, error |-> NoError] : sh \in DataShapes}
    \cup {[ok |-> FALSE, shape |-> "none", error |-> e] : e \in NetworkErrors \cup HttpErrors}

\* The error the try block ends with for an outcome (NoError: it returns).
AttemptError(o) ==
    IF ~o.ok THEN o.error
    ELSE IF ShapeOk(o.shape) THEN NoError ELSE ShapeError

\* A predicate that retries whatever the error is.
AlwaysRetryable(error) == TRUE

\* A predicate that takes every HTTP error status for a temporary one.
RetryableAnyStatus(error) ==
    \/ error.code \in retryableErrors
    \/ error.status >= 400
    \/ error.timeoutMsg
    \/ error.resetMsg

\* isRetryableError
isRetryableError(error) ==
    \/ error.code \in retryableErrors
    \/ error.status >= 500
    \/ error.status = 429
    \/ error.timeoutMsg
    \/ error.resetMsg

\* Math.random() * 0.1 * exponentialDelay, for the values of Math.random() tried:
\* 0, one half, and the largest below 1.
Jitters(exponentialDelay) ==
    {0, exponentialDelay \div 20, (exponentialDelay \div 10) - 1}

\* Math.pow(2, n)
RECURSIVE Pow2(_)
Pow2(n) == IF n <= 0 THEN 1 ELSE 2 * Pow2(n - 1)

Min(a, b) == IF a <= b THEN a ELSE b

\* calculateDelay(attempt), with jitter the random part.
exponentialDelay(n) == baseDelay * Pow2(n - 1)

\* A backoff that does not grow with the attempt.
calculateDelayFlat(n, jitter) == Min(baseDelay + jitter, maxDelay)

calculateDelay(n, jitter) == Min(exponentialDelay(n) + jitter, maxDelay)

\* A loop that keeps and throws the first error it caught.
FirstError(errors) == errors[1]

\* The error downloadImageData throws when it gives up: the one just caught.
ThrownError(errors) == errors[Len(errors)]

\* A catch block that never takes an attempt for the final one.
NeverFinal(n) == FALSE

\* if (attempt === RETRY_CONFIG.maxRetries): the final attempt failed.
FinalAttempt(n) == n = maxRetries

\* downloadImageData(attachmentId) up to its first POST.
DownloadStart ==
    /\ UNCHANGED nonDlVars
    /\ dlPc = "idle"
    /\ attempt' = 1
    /\ dlRequests' = dlRequests + 1
    /\ dlPc' = "request"
    /\ UNCHANGED <<dlErrors, dlDelays, dlThrown>>

\* The POST of the current attempt settles: the data are returned, or the catch
\* block throws or computes the delay and sleeps.
DownloadSettles(o, jitter) ==
    /\ UNCHANGED nonDlVars
    /\ dlPc = "request"
    /\ LET e == [AttemptError(o) EXCEPT !.attempt = attempt]
           errors == Append(dlErrors, e)
       IN IF AttemptError(o) = NoError
          THEN /\ dlPc' = "returned"
               /\ UNCHANGED <<dlErrors, dlDelays, dlThrown>>
          ELSE /\ dlErrors' = errors
               /\ IF ~isRetryableError(e) \/ FinalAttempt(attempt)
                  THEN /\ dlThrown' = ThrownError(errors)
                       /\ dlPc' = "threw"
                       /\ UNCHANGED dlDelays
                  ELSE /\ dlDelays' = Append(dlDelays, calculateDelay(attempt, jitter))
                       /\ dlPc' = "sleep"
                       /\ UNCHANGED dlThrown
    /\ UNCHANGED <<attempt, dlRequests>>

DownloadSettle ==
    \E o \in DownloadOutcomes :
        \E jitter \in Jitters(exponentialDelay(attempt)) : DownloadSettles(o, jitter)

\* The backoff sleep ends: the loop makes its next attempt while attempt <=
\* maxRetries, and throws lastError once the loop is over.
DownloadWake ==
    /\ UNCHANGED nonDlVars
    /\ dlPc = "sleep"
    /\ attempt' = attempt + 1
    /\ IF attempt + 1 <= maxRetries
       THEN /\ dlRequests' = dlRequests + 1
            /\ dlPc' = "request"
            /\ UNCHANGED dlThrown
       ELSE /\ dlThrown' = dlErrors[Len(dlErrors)]
            /\ dlPc' = "threw"
            /\ UNCHANGED dlRequests
    /\ UNCHANGED <<dlErrors, dlDelays>>

InitDlVars ==
    /\ dlPc = "idle"
    /\ attempt = 0
    /\ dlErrors = <<>>
    /\ dlDelays = <<>>
    /\ dlRequests = 0
    /\ dlThrown = NoError

(***************************************************************************)
(* The R2 uploader (mplads-api.js): uploadImageToR2 and imageExistsInR2.   *)
(* Keys and file names are sequences of characters, so that the key each   *)
(* function builds is computed from its template.                          *)
(***************************************************************************)
DigitChars == <<"0", "1", "2", "3", "4", "5", "6", "7", "8", "9">>

\* n.toString() of a non-negative integer, as it appears in a template string.
RECURSIVE DecimalString(_)
DecimalString(n) ==
    IF n < 10 THEN <<DigitChars[n + 1]>>
    ELSE DecimalString(n \div 10) \o <<DigitChars[(n % 10) + 1]>>

\* fileName.split('.').pop(): what follows the last dot, the whole name without one.
splitPop(fileName) ==
    LET dots == {i \in DOMAIN fileName : fileName[i] = "."}
    IN  IF dots = {} THEN fileName
        ELSE LET last == CHOOSE i \in dots : \A j \in dots : j <= i
             IN  SubSeq(fileName, last + 1, Len(fileName))

ExtJpg == <<"j", "p", "g">>

\* fileName.split('.').pop() || 'jpg'
fileExtension(fileName) ==
    IF splitPop(fileName) = <<>> THEN ExtJpg ELSE splitPop(fileName)

PhaseChars(phase) ==
    IF phase = "completed"
    THEN <<"c", "o", "m", "p", "l", "e", "t", "e", "d">>
    ELSE <<"r", "e", "c", "o", "m", "m", "e", "n", "d", "e", "d">>

\* `works/${workId}/${phase}/${attachmentId}_original.`
KeyStem(workId, phase, attachmentId) ==
    <<"w", "o", "r", "k", "s", "/">> \o DecimalString(workId) \o <<"/">>
        \o PhaseChars(phase) \o <<"/">> \o DecimalString(attachmentId)
        \o <<"_", "o", "r", "i", "g", "i", "n", "a", "l", ".">>

\* The r2Key of uploadImageToR2.
uploadKey(workId, phase, attachmentId, fileName) ==
    KeyStem(workId, phase, attachmentId) \o fileExtension(fileName)

\* The r2Key of imageExistsInR2.
existsKey(workId, phase, attachmentId) ==
    KeyStem(workId, phase, attachmentId) \o ExtJpg

WorkIds == {12}
Phases == {"recommended", "completed"}
AttachmentIds == {7}

\* File names the portal reports: "a.jpg", "a.png", "a.b.png", "a." and "a".
FileNames ==
    { <<"a", ".", "j", "p", "g">>, <<"a", ".", "p", "n", "g">>,
      <<"a", ".", "b", ".", "p", "n", "g">>, <<"a", ".">>, <<"a">> }

\* How r2Client.send(PutObjectCommand) ends: resolved; rejected with nothing
\* stored; rejected although the object was stored (the answer was lost).
PutOutcomes == {"stored", "rejected", "lost"}

\* How r2Client.send(HeadObjectCommand) ends when the store is reached or not:
\* it answers for the key, or the call fails with another error.
HeadOutcomes == {"answer", "error"}

NoCall ==
    [op |-> "none", workId |-> 0, phase |-> "", attachmentId |-> 0, fileName |-> <<>>,
     r2Key |-> <<>>, store |-> "", outcome |-> ""]

\* uploadImageToR2(workId, phase, attachmentId, imageBuffer, fileName)
uploadImageToR2(workId, phase, attachmentId, fileName, put) ==
    LET r2Key == uploadKey(workId, phase, attachmentId, fileName)
    IN  /\ r2Objects' = IF put = "rejected" THEN r2Objects ELSE r2Objects \cup {r2Key}
        /\ attempted' = attempted \cup {<<workId, phase, attachmentId>>}
        /\ uploaded' = IF put = "stored"
                       THEN uploaded \cup {<<workId, phase, attachmentId>>}
                       ELSE uploaded
        /\ stCall' = [op |-> "upload", workId |-> workId, phase |-> phase,
                      attachmentId |-> attachmentId, fileName |-> fileName,
                      r2Key |-> r2Key, store |-> put,
                      outcome |-> IF put = "stored" THEN "returned" ELSE "threw"]
        /\ UNCHANGED nonStoreVars

\* What the HEAD of a key answers: the object's metadata, or an error named NotFound.
HeadObject(key, objects) == IF key \in objects THEN "found" ELSE "NotFound"

\* imageExistsInR2(workId, phase, attachmentId)
imageExistsInR2(workId, phase, attachmentId, head) ==
    LET r2Key == existsKey(workId, phase, attachmentId)
        answer == IF head = "answer" THEN HeadObject(r2Key, r2Objects) ELSE "error"
    IN  /\ stCall' = [op |-> "exists", workId |-> workId, phase |-> phase,
                      attachmentId |-> attachmentId, fileName |-> <<>>,
                      r2Key |-> r2Key, store |-> answer,
                      outcome |-> CASE answer = "found" -> "true"
                                    [] answer = "NotFound" -> "false"
                                    [] OTHER -> "threw"]
        /\ UNCHANGED <<r2Objects, attempted, uploaded>>
        /\ UNCHANGED nonStoreVars

Upload ==
    \E workId \in WorkIds, phase \in Phases, attachmentId \in AttachmentIds,
       fileName \in FileNames, put \in PutOutcomes :
        uploadImageToR2(workId, phase, attachmentId, fileName, put)

Exists ==
    \E workId \in WorkIds, phase \in Phases, attachmentId \in AttachmentIds,
       head \in HeadOutcomes :
        imageExistsInR2(workId, phase, attachmentId, head)

InitStoreVars ==
    /\ r2Objects = {}
    /\ attempted = {}
    /\ uploaded = {}
    /\ stCall = NoCall

(***************************************************************************)
(* The record transformer (part_000 lines 624-1000).  A raw row holds the  *)
(* fields the filters and the work id read; a text field is a sequence of  *)
(* characters, <<>> when it is empty or missing; Sno is 0 when missing.    *)
(* An output record holds srNo, workId, state, mpName, house and lsTerm,   *)
(* and the row it was made from.                                           *)
(***************************************************************************)
Row(state, mp, id, endDate, actualAmount, recDate, recAmount, sno) ==
    [STATE_NAME |-> state, MP_NAME |-> mp, WORK_RECOMMENDATION_DTL_ID |-> id,
     ACTUAL_END_DATE |-> endDate, ACTUAL_AMOUNT |-> actualAmount,
     RECOMMENDATION_DATE |-> recDate, RECOMMENDED_AMOUNT |-> recAmount, Sno |-> sno]

\* String.prototype.trim, for the space character.
RECURSIVE TrimStart(_)
TrimStart(s) == IF s # <<>> /\ Head(s) = " " THEN TrimStart(Tail(s)) ELSE s

RECURSIVE TrimEnd(_)
TrimEnd(s) ==
    IF s # <<>> /\ s[Len(s)] = " " THEN TrimEnd(SubSeq(s, 1, Len(s) - 1)) ELSE s

trim(s) == TrimEnd(TrimStart(s))

\* A JavaScript number: NaN, or the integer n.
NaN == [nan |-> TRUE, n |-> 0]

Num(n) == [nan |-> FALSE, n |-> n]

\* The truthiness of a number: neither NaN nor 0.
TruthyNumber(x) == ~x.nan /\ x.n # 0

IsDigit(c) == \E i \in DOMAIN DigitChars : DigitChars[i] = c

DigitValue(c) == (CHOOSE i \in DOMAIN DigitChars : DigitChars[i] = c) - 1

\* The value of the longest run of decimal digits s starts with, after acc.
RECURSIVE DigitsValue(_, _)
DigitsValue(s, acc) ==
    IF s # <<>> /\ IsDigit(Head(s))
    THEN DigitsValue(Tail(s), acc * 10 + DigitValue(Head(s)))
    ELSE acc

\* parseInt(str), radix 10: leading whitespace, a sign, then digits up to the first
\* character that is not one; NaN when no digit is there.
parseInt(str) ==
    LET s == TrimStart(str)
        signed == s # <<>> /\ Head(s) \in {"-", "+"}
        body == IF signed THEN Tail(s) ELSE s
    IN  IF body = <<>> \/ ~IsDigit(Head(body)) THEN NaN
        ELSE IF signed /\ Head(s) = "-" THEN Num(0 - DigitsValue(body, 0))
        ELSE Num(DigitsValue(body, 0))

StrTotal == <<"t", "o", "t", "a", "l">>

\* A filter that looks for "total" in lower case only.
ValidNamesCaseSensitive(record) ==
    LET stateName == trim(record.STATE_NAME)
        mpName == trim(record.MP_NAME)
    IN  /\ ~(stateName = <<>> \/ mpName = <<>> \/ Len(stateName) <= 1 \/ Len(mpName) <= 1)
        /\ ~(includes(stateName, StrTotal) \/ includes(mpName, StrTotal))

\* The filter every transform starts with: both names longer than one character
\* once trimmed, and neither holding "total".
ValidNames(record) ==
    LET stateName == trim(record.STATE_NAME)
        mpName == trim(record.MP_NAME)
    IN  /\ ~(stateName = <<>> \/ mpName = <<>> \/ Len(stateName) <= 1 \/ Len(mpName) <= 1)
        /\ ~(includes(toLowerCase(stateName), StrTotal)
               \/ includes(toLowerCase(mpName), StrTotal))

\* A transform that numbers the rows without serial number from 0.
srNoZeroBased(record, position) == IF record.Sno # 0 THEN record.Sno ELSE position - 1

\* record.Sno || index + 1, position being index + 1
srNo(record, position) == IF record.Sno # 0 THEN record.Sno ELSE position

\* parseInt(record.WORK_RECOMMENDATION_DTL_ID) || 0
workIdOf(record) ==
    IF TruthyNumber(parseInt(record.WORK_RECOMMENDATION_DTL_ID))
    THEN parseInt(record.WORK_RECOMMENDATION_DTL_ID).n
    ELSE 0

\* A record that carries the term whatever the house.
termOfAnyHouse(house, lsTerm) == lsTerm

\* ...(house === 'Lok Sabha' ? { lsTerm: lsTerm } : { lsTerm: null })
termOf(house, lsTerm) == IF house = "Lok Sabha" THEN lsTerm ELSE Null

\* The output record of a row; row remembers the row it was made from.
OutRecord(record, position, house, lsTerm, id) ==
    [srNo |-> srNo(record, position), workId |-> id, state |-> record.STATE_NAME,
     mpName |-> record.MP_NAME, house |-> house, lsTerm |-> termOf(house, lsTerm),
     row |-> record]

transformAllocatedLimit(rows, house, lsTerm) ==
    LET kept == SelectSeq(rows, ValidNames)
    IN  [i \in DOMAIN kept |-> OutRecord(kept[i], i, house, lsTerm, 0)]

transformExpenditure(rows, house, lsTerm) ==
    LET kept == SelectSeq(rows, ValidNames)
    IN  [i \in DOMAIN kept |-> OutRecord(kept[i], i, house, lsTerm, workIdOf(kept[i]))]

\* A filter that asks for no work id.
KeepCompletedAnyId(record) ==
    /\ ValidNames(record)
    /\ ~(record.ACTUAL_END_DATE = <<>> \/ record.ACTUAL_AMOUNT = <<>>)

\* The filter of transformWorksCompleted.
KeepCompleted(record) ==
    LET recId == parseInt(record.WORK_RECOMMENDATION_DTL_ID)
    IN  /\ ValidNames(record)
        /\ ~(record.ACTUAL_END_DATE = <<>> \/ record.ACTUAL_AMOUNT = <<>>)
        /\ ~(~TruthyNumber(recId) \/ recId.n <= 0)

transformWorksCompleted(rows, house, lsTerm) ==
    LET kept == SelectSeq(rows, KeepCompleted)
    IN  [i \in DOMAIN kept |-> OutRecord(kept[i], i, house, lsTerm, workIdOf(kept[i]))]

\* A filter that looks no work id up in the completed set.
NeverCompleted(recId, completedWorkIds) == FALSE

\* recId && completedWorkIds.has(recId), recId being parseInt(...) || null
AlreadyCompleted(recId, completedWorkIds) ==
    TruthyNumber(recId) /\ recId.n \in completedWorkIds

\* The filter of transformWorksRecommended.
KeepRecommended(record, completedWorkIds) ==
    LET recId == parseInt(record.WORK_RECOMMENDATION_DTL_ID)
    IN  /\ ValidNames(record)
        /\ ~AlreadyCompleted(recId, completedWorkIds)
        /\ ~(~TruthyNumber(recId) \/ recId.n <= 0)
        /\ ~(record.RECOMMENDATION_DATE = <<>> \/ record.RECOMMENDED_AMOUNT = <<>>)

transformWorksRecommended(rows, house, lsTerm, completedWorkIds) ==
    LET Keep(record) == KeepRecommended(record, completedWorkIds)
        kept == SelectSeq(rows, Keep)
    IN  [i \in DOMAIN kept |-> OutRecord(kept[i], i, house, lsTerm, workIdOf(kept[i]))]

\* new Set(works_completed.map(w => w.workId).filter(Boolean))
CompletedWorkIds(completed) ==
    {completed[i].workId : i \in DOMAIN completed} \ {0}

\* What transformAllData makes of one house.
transformHouse(data, house, lsTerm) ==
    LET completed == transformWorksCompleted(data.works_completed, house, lsTerm)
    IN  [allocated_limit |-> transformAllocatedLimit(data.allocated_limit, house, lsTerm),
         expenditure |-> transformExpenditure(data.expenditure, house, lsTerm),
         works_completed |-> completed,
         works_recommended |->
             transformWorksRecommended(data.works_recommended, house, lsTerm,
                                       CompletedWorkIds(completed))]

transformAllData(data, options) ==
    [lok_sabha |-> transformHouse(data.lok_sabha, "Lok Sabha", options.lsTerm),
     rajya_sabha |-> transformHouse(data.rajya_sabha, "Rajya Sabha", Null)]

\* Field values of the rows a report may hold.
Goa == <<"G", "o", "a">>
Raj == <<"R", "a", "j">>
SubTotal == <<"S", "u", "b", " ", "T", "O", "T", "A", "L">>
DateText == <<"0", "1", "-", "J", "a", "n", "-", "2", "0", "2", "4">>
AmountText == <<"1", ",", "0", "0", ",", "0", "0", "0">>

\* A work with id 5 and serial number 3, every date and amount present.
RowFive == Row(Goa, Raj, <<"5">>, DateText, AmountText, DateText, AmountText, 3)
\* A work whose id text is " 7x" (parseInt reads 7), without a serial number.
RowSeven == Row(Goa, Raj, <<" ", "7", "x">>, DateText, AmountText, DateText, AmountText, 0)
\* A subtotal row carrying the id 5.
RowTotal == Row(Goa, SubTotal, <<"5">>, DateText, AmountText, DateText, AmountText, 0)
\* A row whose id is -5.
RowNegative == Row(Goa, Raj, <<"-", "5">>, DateText, AmountText, DateText, AmountText, 0)
\* The work with id 5 again, recommended but without a completion date.
RowOpenFive == Row(Goa, Raj, <<"5">>, <<>>, AmountText, DateText, AmountText, 0)

LsRows == {RowFive, RowSeven, RowTotal, RowNegative, RowOpenFive}
RsRows == {RowFive, RowSeven}

\* The longest works list of a Lok Sabha report, and of a Rajya Sabha report.
MaxLsRows == 2
MaxRsRows == 1

SeqsUpTo(S, n) == UNION {[1..k -> S] : k \in 0..n}

LsHouseData ==
    [allocated_limit : {<<RowFive>>, <<RowTotal, RowFive>>},
     expenditure : {<<RowSeven>>, <<RowNegative, RowTotal>>},
     works_completed : SeqsUpTo(LsRows, MaxLsRows),
     works_recommended : SeqsUpTo(LsRows, MaxLsRows)]

RsHouseData ==
    [allocated_limit : {<<RowFive>>},
     expenditure : {<<RowSeven>>},
     works_completed : SeqsUpTo(RsRows, MaxRsRows),
     works_recommended : SeqsUpTo(RsRows, MaxRsRows)]

\* The batches handed to transformAllData.
Batches == [lok_sabha : LsHouseData, rajya_sabha : RsHouseData]

TransformOptions == [lsTerm : {"17", "18"}]

EmptyHouse ==
    [allocated_limit |-> <<>>, expenditure |-> <<>>, works_completed |-> <<>>,
     works_recommended |-> <<>>]

NoBatch == [lok_sabha |-> EmptyHouse, rajya_sabha |-> EmptyHouse]

\* One call of transformAllData(apiData, options).
TransformAll ==
    /\ trPc = "input"
    /\ trResults' = transformAllData(apiData, trOptions)
    /\ trPc' = "done"
    /\ UNCHANGED <<apiData, trOptions>>
    /\ UNCHANGED nonTrVars

\* No batch is being transformed.
InitTrVars ==
    /\ apiData = NoBatch
    /\ trOptions = [lsTerm |-> Null]
    /\ trPc = "idle"
    /\ trResults = NoBatch

(***************************************************************************)
(* One transform applied to one list of rows.                              *)
(***************************************************************************)
\* More rows a report may hold: aggregate rows, rows with blank or one-letter
\* names, and rows without id, date or amount.
RowStateTotal ==
    Row(<<"T", "o", "t", "a", "l">>, Raj, <<"9">>, DateText, AmountText, DateText,
        AmountText, 0)
RowBlankState ==
    Row(<<" ", " ">>, Raj, <<"9">>, DateText, AmountText, DateText, AmountText, 0)
RowNoMp == Row(Goa, <<>>, <<"9">>, DateText, AmountText, DateText, AmountText, 0)
RowShortMp ==
    Row(Goa, <<" ", "R", " ">>, <<"9">>, DateText, AmountText, DateText, AmountText, 0)
RowNoAmount == Row(Goa, Raj, <<"9">>, DateText, <<>>, DateText, <<>>, 0)
RowNoDate == Row(Goa, Raj, <<"9">>, <<>>, AmountText, <<>>, AmountText, 0)
RowZeroId == Row(Goa, Raj, <<"0">>, DateText, AmountText, DateText, AmountText, 0)
RowNoId == Row(Goa, Raj, <<>>, DateText, AmountText, DateText, AmountText, 4)

RowUniverse ==
    LsRows \cup {RowStateTotal, RowBlankState, RowNoMp, RowShortMp, RowNoAmount,
                 RowNoDate, RowZeroId, RowNoId}

\* The longest list handed to one transform.
MaxRows == 2

Transforms == {"allocated_limit", "expenditure", "works_completed", "works_recommended"}

\* The house and lsTerm arguments of a transform, and the completedWorkIds sets.
HouseNames == {"Lok Sabha", "Rajya Sabha"}
TermArgs == {"17", "18", Null}
CompletedIdSets == {{}, {5}}

NoRowCall == [transform |-> "none", house |-> "", lsTerm |-> Null, completedWorkIds |-> {}]

\* transformAllocatedLimit(rowsIn, house, lsTerm), and the other three.
ApplyTransform(transform, house, lsTerm, completedWorkIds) ==
    /\ rowCall = NoRowCall
    /\ rowCall' = [transform |-> transform, house |-> house, lsTerm |-> lsTerm,
                   completedWorkIds |-> completedWorkIds]
    /\ rowsOut' =
         CASE transform = "allocated_limit" -> transformAllocatedLimit(rowsIn, house, lsTerm)
           [] transform = "expenditure" -> transformExpenditure(rowsIn, house, lsTerm)
           [] transform = "works_completed" -> transformWorksCompleted(rowsIn, house, lsTerm)
           [] transform = "works_recommended" ->
                transformWorksRecommended(rowsIn, house, lsTerm, completedWorkIds)
    /\ UNCHANGED rowsIn
    /\ UNCHANGED nonRowVars

ApplyAllocatedLimit ==
    \E house \in HouseNames, lsTerm \in TermArgs :
        ApplyTransform("allocated_limit", house, lsTerm, {})

ApplyExpenditure ==
    \E house \in HouseNames, lsTerm \in TermArgs :
        ApplyTransform("expenditure", house, lsTerm, {})

ApplyWorksCompleted ==
    \E house \in HouseNames, lsTerm \in TermArgs :
        ApplyTransform("works_completed", house, lsTerm, {})

ApplyWorksRecommended ==
    \E house \in HouseNames, lsTerm \in TermArgs, completedWorkIds \in CompletedIdSets :
        ApplyTransform("works_recommended", house, lsTerm, completedWorkIds)

\* No transform is being applied.
InitRowVars ==
    /\ rowsIn = <<>>
    /\ rowCall = NoRowCall
    /\ rowsOut = <<>>

(***************************************************************************)
(* fetchData called on its own, by a process that has constructed its      *)
(* client.                                                                 *)
(***************************************************************************)
\* The lsTerm arguments a caller passes.
FetchTerms == {"17", "18", "16"}

NoArgs == [house |-> "", dataType |-> "", lsTerm |-> ""]

NoResult == [ok |-> FALSE, data |-> <<>>, error |-> "none"]

\* fetchData(house, dataType, lsTerm) up to req.end().
FetchCall(house, dataType, lsTerm) ==
    /\ pc = "idle"
    /\ fPc \in {"idle", "settled"}
    /\ fArgs' = [house |-> house, dataType |-> dataType, lsTerm |-> lsTerm]
    /\ fReq' = fetchRequest(house, dataType, lsTerm, sessionCookies)
    /\ fResp' = NetError
    /\ fResult' = NoResult
    /\ fPc' = "sent"
    /\ UNCHANGED nonFetchVars

\* A fetchData that sends its request again after a failure.
AnswerRetried(r) == IF r.ok THEN "settled" ELSE "sent"

\* Where fetchData stands once its request was answered or failed: each handler
\* (end, error, timeout) ends in resolve or reject, none sends the request again.
AfterAnswer(r) == "settled"

\* The response arrives, or the request fails: the promise settles.
FetchReturn(resp) ==
    /\ fPc = "sent"
    /\ fResp' = resp
    /\ fResult' = fetchData(resp, fArgs.dataType)
    /\ fPc' = AfterAnswer(fetchData(resp, fArgs.dataType))
    /\ UNCHANGED <<fArgs, fReq>>
    /\ UNCHANGED nonFetchVars

FetchCalls ==
    \E house \in {"lok_sabha", "rajya_sabha"}, dataType \in DataTypeSet,
       lsTerm \in FetchTerms : FetchCall(house, dataType, lsTerm)

FetchReturns ==
    /\ fPc = "sent"
    /\ \E resp \in FetchResponses(fArgs.dataType) : FetchReturn(resp)

InitFetchVars ==
    /\ fPc = "idle"
    /\ fArgs = NoArgs
    /\ fReq = NoReq
    /\ fResp = NetError
    /\ fResult = NoResult

(***************************************************************************)
(* The attachment lookup (mplads-api.js): getAttachmentIds and             *)
(* getWorkImages.  A JSON value of the answer is a record [t, v]: a string *)
(* (its characters), a number, or an array of such values' contents.       *)
(***************************************************************************)
StrNA == <<"N", "/", "A">>

JStr(s) == [t |-> "str", v |-> s]
JNum(n) == [t |-> "num", v |-> n]
JArr(a) == [t |-> "arr", v |-> a]

\* One element of the answer of getAttachIdsbyFlag.
AttachItem(fileName, attachId) == [FILE_NAME |-> fileName, ATTACH_ID |-> attachId]

\* response.data: whether it is an array, and its elements.
AttachData(isArray, items) == [kind |-> "data", status |-> 200, isArray |-> isArray, items |-> items]

\* A request the axios client rejected: an HTTP status, or no response at all.
AttachFailure(status) == [kind |-> "error", status |-> status, isArray |-> FALSE, items |-> <<>>]

NameJpg == <<"a", ".", "j", "p", "g">>
NamePng == <<"a", ".", "p", "n", "g">>

\* What the portal answers: the "N/A" sentinel, one file, parallel arrays of one
\* and of two files, an empty array, a body that is no array; HTTP 404, HTTP 500
\* and a connection error.
AttachResponses ==
    { AttachData(TRUE, <<AttachItem(JStr(StrNA), JStr(StrNA))>>),
      AttachData(TRUE, <<AttachItem(JStr(NameJpg), JNum(7))>>),
      AttachData(TRUE, <<AttachItem(JArr(<<NamePng>>), JArr(<<8>>))>>),
      AttachData(TRUE, <<AttachItem(JArr(<<NameJpg, NamePng>>), JArr(<<7, 8>>))>>),
      AttachData(TRUE, <<>>),
      AttachData(FALSE, <<>>),
      AttachFailure(404), AttachFailure(500), AttachFailure(0) }

Descriptor(fileName, attachmentId) == [fileName |-> fileName, attachmentId |-> attachmentId]

\* What getAttachmentIds settles to: a list, or the error thrown.
Listed(list) == [threw |-> FALSE, list |-> list]
ListThrew == [threw |-> TRUE, list |-> <<>>]

\* An attachment lookup that gives every file the first attachment id.
getAttachmentIdsFirstId(resp) ==
    IF resp.kind = "data"
    THEN IF /\ resp.isArray
            /\ Len(resp.items) > 0
            /\ ~(resp.items[1].FILE_NAME.t = "str" /\ resp.items[1].FILE_NAME.v = StrNA)
         THEN LET result == resp.items[1]
              IN  IF result.FILE_NAME.t = "arr" /\ result.ATTACH_ID.t = "arr"
                  THEN Listed([index \in DOMAIN result.FILE_NAME.v |->
                                  Descriptor(result.FILE_NAME.v[index],
                                             result.ATTACH_ID.v[1])])
                  ELSE Listed(<<Descriptor(result.FILE_NAME.v, result.ATTACH_ID.v)>>)
         ELSE Listed(<<>>)
    ELSE IF resp.status = 404 THEN Listed(<<>>) ELSE ListThrew

\* getAttachmentIds(workId, flag), given the answer to its POST.
getAttachmentIds(resp) ==
    IF resp.kind = "data"
    THEN IF /\ resp.isArray
            /\ Len(resp.items) > 0
            /\ ~(resp.items[1].FILE_NAME.t = "str" /\ resp.items[1].FILE_NAME.v = StrNA)
         THEN LET result == resp.items[1]
              IN  IF result.FILE_NAME.t = "arr" /\ result.ATTACH_ID.t = "arr"
                  THEN Listed([index \in DOMAIN result.FILE_NAME.v |->
                                  Descriptor(result.FILE_NAME.v[index],
                                             result.ATTACH_ID.v[index])])
                  ELSE Listed(<<Descriptor(result.FILE_NAME.v, result.ATTACH_ID.v)>>)
         ELSE Listed(<<>>)
    ELSE IF resp.status = 404 THEN Listed(<<>>) ELSE ListThrew

\* The body of a getAttachIdsbyFlag request.
AttachRequest(workId, flag) == [FLAG |-> flag, WORK_ID |-> workId]

Collections == {"works_completed", "works_recommended", "other"}

ImageResults(recommended, completed) ==
    [recommended |-> recommended, completed |-> completed,
     total |-> Len(recommended) + Len(completed)]

\* The flags getWorkImages asks for, in order, given the answers: the second
\* request of the fallback is not sent once the first has thrown.
FlagsSent(collection, resp1) ==
    CASE collection = "works_completed" -> <<"3">>
      [] collection = "works_recommended" -> <<"1">>
      [] OTHER -> IF getAttachmentIds(resp1).threw THEN <<"1">> ELSE <<"1", "3">>

\* A getWorkImages that keeps the list of the phase that answered when the request
\* of the other phase fails.
getWorkImagesResultsPartial(collection, resp1, resp3) ==
    LET recommendedAttachments == getAttachmentIds(resp1)
        completedAttachments == getAttachmentIds(resp3)
    IN  CASE collection = "works_completed" -> ImageResults(<<>>, completedAttachments.list)
          [] collection = "works_recommended" ->
               ImageResults(recommendedAttachments.list, <<>>)
          [] OTHER ->
               IF recommendedAttachments.threw THEN ImageResults(<<>>, <<>>)
               ELSE ImageResults(recommendedAttachments.list, completedAttachments.list)

\* getWorkImages(workId, collection): resp1 and resp3 answer FLAG 1 and FLAG 3.
\* An error of either request is caught and the empty results are returned.
getWorkImagesResults(collection, resp1, resp3) ==
    LET recommendedAttachments == getAttachmentIds(resp1)
        completedAttachments == getAttachmentIds(resp3)
    IN  CASE collection = "works_completed" ->
               IF completedAttachments.threw THEN ImageResults(<<>>, <<>>)
               ELSE ImageResults(<<>>, completedAttachments.list)
          [] collection = "works_recommended" ->
               IF recommendedAttachments.threw THEN ImageResults(<<>>, <<>>)
               ELSE ImageResults(recommendedAttachments.list, <<>>)
          [] OTHER ->
               IF recommendedAttachments.threw \/ completedAttachments.threw
               THEN ImageResults(<<>>, <<>>)
               ELSE ImageResults(recommendedAttachments.list, completedAttachments.list)

ImageWorkIds == {12, 13}

NoImageCall ==
    [workId |-> 0, collection |-> "none", requests |-> <<>>, responses |-> <<>>,
     threw |-> FALSE, results |-> ImageResults(<<>>, <<>>)]

\* One call of getWorkImages: the requests it sent, the answer to each, and what
\* it returned.  It never throws.
getWorkImages(workId, collection, resp1, resp3) ==
    LET flags == FlagsSent(collection, resp1)
    IN  /\ wiCall' = [workId |-> workId, collection |-> collection,
                      requests |-> [i \in DOMAIN flags |-> AttachRequest(workId, flags[i])],
                      responses |-> [i \in DOMAIN flags |->
                                        IF flags[i] = "1" THEN resp1 ELSE resp3],
                      threw |-> FALSE,
                      results |-> getWorkImagesResults(collection, resp1, resp3)]
        /\ UNCHANGED nonImgVars

GetWorkImages ==
    \E workId \in ImageWorkIds, collection \in Collections,
       resp1 \in AttachResponses, resp3 \in AttachResponses :
        getWorkImages(workId, collection, resp1, resp3)

InitImgVars == wiCall = NoImageCall

(***************************************************************************)
(* The metadata manager (metadata-manager.js).  A Date is a local date and *)
(* time of the year 2025: getMonth() (0 is January), getDate(), getHours() *)
(* and getMinutes(); seconds and milliseconds are zero throughout.         *)
(***************************************************************************)
\* The days of the months of a year that is not a leap year.
MonthLengths == <<31, 28, 31, 30, 31, 30, 31, 31, 30, 31, 30, 31>>

Date(month, date, hours, minutes) ==
    [month |-> month, date |-> date, hours |-> hours, minutes |-> minutes]

NoDate == Date(0, 0, 0, 0)

\* The number of the day in the year, 1 for the first of January.
RECURSIVE DaysBefore(_)
DaysBefore(month) == IF month = 0 THEN 0 ELSE MonthLengths[month] + DaysBefore(month - 1)

DayOfYear(d) == DaysBefore(d.month) + d.date

\* d.getDay(): 0 is Sunday; the first of January 2025 is a Wednesday.
getDay(d) == (DayOfYear(d) + 2) % 7

\* d.getTime(), in minutes from the start of the year.
getTime(d) == ((DayOfYear(d) - 1) * 24 + d.hours) * 60 + d.minutes

\* d.setDate(n) for n >= 1: a day past the end of the month rolls into the next.
RECURSIVE setDate(_, _)
setDate(d, n) ==
    IF n > MonthLengths[d.month + 1]
    THEN setDate([d EXCEPT !.month = @ + 1], n - MonthLengths[d.month + 1])
    ELSE [d EXCEPT !.date = n]

\* d.setHours(h, m, 0, 0)
setHours(d, h, m) == [d EXCEPT !.hours = h, !.minutes = m]

StrDaily == <<"d", "a", "i", "l", "y">>
StrWeekly == <<"w", "e", "e", "k", "l", "y">>
StrBiWeekly == <<"b", "i", "-", "w", "e", "e", "k", "l", "y">>
StrWeeklyCapital == <<"W", "e", "e", "k", "l", "y">>
StrMonthly == <<"m", "o", "n", "t", "h", "l", "y">>

Frequencies == {StrDaily, StrWeekly, StrBiWeekly, StrWeeklyCapital, StrMonthly}

\* A week from the day of the call, whatever that day is.
daysUntilMondayAlwaysSeven(nowDate) == 7

\* (7 - now.getDay() + 1) % 7 || 7
daysUntilMonday(nowDate) ==
    IF (7 - getDay(nowDate) + 1) % 7 = 0 THEN 7 ELSE (7 - getDay(nowDate) + 1) % 7

\* A schedule whose "bi-weekly" is one week and that keeps the time of day of
\* every other frequency.
calculateNextUpdateShort(frequency, nowDate) ==
    IF toLowerCase(frequency) = StrBiWeekly
    THEN setHours(setDate(nowDate, nowDate.date + 7), 2, 0)
    ELSE setDate(nowDate, nowDate.date + 1)

\* A schedule whose next update is 2 AM of the day of the call.
calculateNextUpdateToday(frequency, nowDate) == setHours(nowDate, 2, 0)

\* calculateNextUpdate(frequency), called at the time nowDate.
calculateNextUpdate(frequency, nowDate) ==
    LET f == toLowerCase(frequency)
    IN  CASE f = StrDaily -> setHours(setDate(nowDate, nowDate.date + 1), 2, 0)
          [] f = StrWeekly -> setHours(setDate(nowDate, nowDate.date + daysUntilMonday(nowDate)), 2, 0)
          [] f = StrBiWeekly -> setHours(setDate(nowDate, nowDate.date + 14), 2, 0)
          [] OTHER -> setHours(setDate(nowDate, nowDate.date + 1), 2, 0)

\* formatDateForFooter(date): month/day/year.
formatDateForFooter(date) == <<date.month + 1, date.date, 2025>>

\* Math.round(a / b) for b > 0: the nearest integer, halves upwards.
MathRound(a, b) == (2 * a + b) \div (2 * b)

\* formatNextUpdateInfo(nextUpdate), called at the time nowDate.
formatNextUpdateInfo(nextUpdate, nowDate) ==
    LET diff == getTime(nextUpdate) - getTime(nowDate)
        diffHours == MathRound(diff, 60)
        diffDays == MathRound(diff, 60 * 24)
    IN  IF diffHours < 24 THEN [text |-> "in hours", n |-> diffHours]
        ELSE IF diffDays = 1 THEN [text |-> "tomorrow", n |-> 1]
        ELSE [text |-> "in days", n |-> diffDays]

SourceLabel == "Official MPLADS Portal API"

\* process.env.UPDATE_FREQUENCY || 'daily': <<>> is an unset or empty variable.
EnvFrequencies == Frequencies \cup {<<>>}
updateFrequency(env) == IF env = <<>> THEN StrDaily ELSE env

\* The totalRecords a cycle reports: 0 stands for a missing count as well.
StatsGiven == {0, 5}

\* The document updateDataSyncMetadata builds.
Metadata(nowDate, env, totalRecords) ==
    LET nextUpdate == calculateNextUpdate(updateFrequency(env), nowDate)
    IN  [lastUpdated |-> nowDate,
         lastUpdatedFormatted |-> formatDateForFooter(nowDate),
         nextUpdate |-> nextUpdate,
         nextUpdateFormatted |-> formatDateForFooter(nextUpdate),
         nextUpdateInfo |-> formatNextUpdateInfo(nextUpdate, nowDate),
         source |-> SourceLabel,
         totalRecords |-> totalRecords,
         updateFrequency |-> updateFrequency(env)]

NoDoc ==
    [lastUpdated |-> NoDate, lastUpdatedFormatted |-> <<0, 0, 0>>,
     nextUpdate |-> NoDate, nextUpdateFormatted |-> <<0, 0, 0>>,
     nextUpdateInfo |-> [text |-> "pending first sync", n |-> 0],
     source |-> SourceLabel, totalRecords |-> 0, updateFrequency |-> <<>>]

\* The positions of the documents a filter on the source label matches.
Matching(docs) == {i \in DOMAIN docs : docs[i].source = SourceLabel}

\* metadataCollection.findOne({ source }): the first match, or null.
FindOne(docs) ==
    IF Matching(docs) = {} THEN [found |-> FALSE, doc |-> NoDoc]
    ELSE [found |-> TRUE,
          doc |-> docs[CHOOSE i \in Matching(docs) : \A j \in Matching(docs) : i <= j]]

\* An upsert that inserts the document whether or not one matches.
InsertOne(docs, doc) == Append(docs, doc)

\* metadataCollection.replaceOne({ source }, doc, { upsert: true }): the first
\* match is replaced; the document is inserted when nothing matches.
replaceOne(docs, doc) ==
    IF Matching(docs) = {} THEN Append(docs, doc)
    ELSE LET first == CHOOSE i \in Matching(docs) : \A j \in Matching(docs) : i <= j
         IN  [docs EXCEPT ![first] = doc]

\* updates counts the calls of updateDataSyncMetadata so far, up to two.
NoMdCall == [op |-> "none", at |-> NoDate, frequency |-> <<>>, date |-> NoDate,
             flag |-> FALSE, doc |-> NoDoc, updates |-> 0]

\* getDataSyncMetadata(db), called at the time nowDate: the stored document with its
\* nextUpdateInfo refreshed, or the placeholder of a store without one.
getDataSyncMetadata(docs, nowDate) ==
    LET metadata == FindOne(docs)
    IN  IF ~metadata.found THEN [stored |-> FALSE, doc |-> NoDoc]
        ELSE [stored |-> TRUE,
              doc |-> [metadata.doc EXCEPT
                          !.nextUpdateInfo = formatNextUpdateInfo(metadata.doc.nextUpdate, nowDate)]]

\* A test that is true only once the next update has passed.
shouldUpdateDataStrict(docs, nowDate) ==
    LET metadata == getDataSyncMetadata(docs, nowDate)
    IN  IF ~metadata.stored THEN TRUE
        ELSE getTime(nowDate) > getTime(metadata.doc.nextUpdate)

\* shouldUpdateData(db), called at the time nowDate.
shouldUpdateData(docs, nowDate) ==
    LET metadata == getDataSyncMetadata(docs, nowDate)
    IN  IF ~metadata.stored THEN TRUE
        ELSE getTime(nowDate) >= getTime(metadata.doc.nextUpdate)

\* A direct call of calculateNextUpdate.
CalculateNextUpdate(frequency) ==
    /\ mdCall' = [NoMdCall EXCEPT !.op = "calculateNextUpdate", !.at = mdNow,
                                  !.frequency = frequency,
                                  !.date = calculateNextUpdate(frequency, mdNow),
                                  !.updates = mdCall.updates]
    /\ UNCHANGED <<mdNow, mdDocs>>
    /\ UNCHANGED nonMdVars

\* updateDataSyncMetadata(db, syncStats)
updateDataSyncMetadata(env, totalRecords) ==
    LET metadata == Metadata(mdNow, env, totalRecords)
    IN  /\ mdDocs' = replaceOne(mdDocs, metadata)
        /\ mdCall' = [NoMdCall EXCEPT !.op = "updateDataSyncMetadata", !.at = mdNow,
                                      !.frequency = updateFrequency(env),
                                      !.doc = metadata,
                                      !.updates = IF mdCall.updates < 2
                                                  THEN mdCall.updates + 1 ELSE 2]
        /\ UNCHANGED mdNow
        /\ UNCHANGED nonMdVars

UpdateDataSyncMetadata ==
    \E env \in EnvFrequencies, totalRecords \in StatsGiven :
        updateDataSyncMetadata(env, totalRecords)

\* shouldUpdateData(db)
ShouldUpdateData ==
    /\ mdCall' = [NoMdCall EXCEPT !.op = "shouldUpdateData", !.at = mdNow,
                                  !.flag = shouldUpdateData(mdDocs, mdNow),
                                  !.updates = mdCall.updates]
    /\ UNCHANGED <<mdNow, mdDocs>>
    /\ UNCHANGED nonMdVars

\* The times of day the clock shows.
ClockTimes == <<<<1, 30>>, <<2, 0>>, <<13, 45>>>>

\* The clock of the store's runs starts on Thursday 30 January and stops at the
\* end of day MaxMdDay of the year.
MaxMdDay == 37

ClockIndex(d) == CHOOSE i \in DOMAIN ClockTimes : ClockTimes[i] = <<d.hours, d.minutes>>

\* The next time the clock shows.
NextClock(d) ==
    IF ClockIndex(d) < Len(ClockTimes)
    THEN setHours(d, ClockTimes[ClockIndex(d) + 1][1], ClockTimes[ClockIndex(d) + 1][2])
    ELSE setHours(setDate(d, d.date + 1), ClockTimes[1][1], ClockTimes[1][2])

\* Time passes: to the next time of day, or by a whole week.
MdTick ==
    /\ \E later \in {NextClock(mdNow), setDate(mdNow, mdNow.date + 7)} :
          /\ DayOfYear(later) <= MaxMdDay
          /\ mdNow' = later
    /\ UNCHANGED <<mdDocs, mdCall>>
    /\ UNCHANGED nonMdVars

InitMdVars ==
    /\ mdNow = Date(0, 30, 1, 30)
    /\ mdDocs = <<>>
    /\ mdCall = NoMdCall

\* The times calculateNextUpdate is called at: every day of January, February
\* and March, at the times of day below.
ScheduleTimes == {<<0, 0>>, <<1, 59>>, <<2, 0>>, <<2, 1>>, <<23, 59>>}

ScheduleDates ==
    UNION {{Date(month, date, t[1], t[2]) :
               date \in 1..MonthLengths[month + 1], t \in ScheduleTimes} : month \in 0..2}

(***************************************************************************)
(* The pipeline test (part_000 lines 1014-1102): testSingleWork looks up   *)
(* the images of up to three works, and downloads and uploads the first    *)
(* image of each phase.                                                    *)
(***************************************************************************)
\* What getWorksWithImages returns: the completed and the recommended works.
CompletedWorks == {<<>>, <<12>>, <<12, 13>>}
RecommendedWorks == {<<>>, <<14>>, <<14, 15>>}

\* [...worksData.completed, ...worksData.recommended].slice(0, 3)
TestWorksOf(completed, recommended) ==
    SubSeq(completed \o recommended, 1, Min(3, Len(completed \o recommended)))

\* What the portal answers the lookups of the pipeline.
PipelineResponses ==
    { AttachData(TRUE, <<AttachItem(JStr(StrNA), JStr(StrNA))>>),
      AttachData(TRUE, <<AttachItem(JStr(NameJpg), JNum(7))>>),
      AttachData(TRUE, <<AttachItem(JArr(<<NameJpg, NamePng>>), JArr(<<7, 8>>))>>),
      AttachFailure(500) }

TestImage(descriptor, phase) ==
    [fileName |-> descriptor.fileName, attachmentId |-> descriptor.attachmentId,
     phase |-> phase]

\* The first image of each phase, recommended first.
TestImagesOf(workImages) ==
    (IF Len(workImages.recommended) > 0
     THEN <<TestImage(workImages.recommended[1], "recommended")>> ELSE <<>>)
    \o (IF Len(workImages.completed) > 0
        THEN <<TestImage(workImages.completed[1], "completed")>> ELSE <<>>)

\* An entry of the log: the step, the positions of the work and of the image, how
\* the step ended, the number of images to test (a lookup) and the key (an upload).
LogEntry(op, w, k, ok, n, r2Key) ==
    [op |-> op, w |-> w, k |-> k, ok |-> ok, n |-> n, r2Key |-> r2Key]

\* Where testSingleWork stands: the step, the work and the image.
Position(p, w, k) == [pc |-> p, w |-> w, k |-> k]

\* The for loop over testWorks moves past work w.
AfterWork(works, w) ==
    IF w < Len(works) THEN Position("images", w + 1, 0) ELSE Position("done", w, 0)

\* The for loop over testImages moves past image k of work w.
AfterImage(works, w, images, k) ==
    IF k < Len(images) THEN Position("download", w, k + 1) ELSE AfterWork(works, w)

\* A pipeline that gives up at the first image it cannot process.
AbortOnFailure(works, w, images, k) == Position("done", w, k)

\* catch (error) { console.error(`Failed to process ...`) }: on to the next image.
AfterFailure(works, w, images, k) == AfterImage(works, w, images, k)

MoveTo(position) ==
    /\ plPc' = position.pc
    /\ plWork' = position.w
    /\ plImage' = position.k

\* connectDatabase and getWorksWithImages: the database fails, or answers.
PlStart(dbOk, completed, recommended) ==
    /\ plPc = "start"
    /\ testWorks' = IF dbOk THEN TestWorksOf(completed, recommended) ELSE <<>>
    /\ IF dbOk /\ Len(TestWorksOf(completed, recommended)) > 0
       THEN MoveTo(Position("images", 1, 0))
       ELSE MoveTo(Position("done", 0, 0))
    /\ UNCHANGED <<testImages, plLog>>
    /\ UNCHANGED nonPlVars

\* const workImages = await getWorkImages(work.workId), with no collection given.
PlImages(resp1, resp3) ==
    LET workImages == getWorkImagesResults("other", resp1, resp3)
        images == TestImagesOf(workImages)
    IN  /\ plPc = "images"
        /\ plLog' = Append(plLog, LogEntry("images", plWork, 0, TRUE, Len(images), <<>>))
        /\ testImages' = images
        /\ IF workImages.total = 0
           THEN MoveTo(AfterWork(testWorks, plWork))
           ELSE MoveTo(Position("download", plWork, 1))
        /\ UNCHANGED testWorks
        /\ UNCHANGED nonPlVars

\* await downloadImageData(testImage.attachmentId): it returns the bytes or throws.
PlDownload(ok) ==
    /\ plPc = "download"
    /\ plLog' = Append(plLog, LogEntry("download", plWork, plImage, ok, 0, <<>>))
    /\ IF ok
       THEN MoveTo(Position("upload", plWork, plImage))
       ELSE MoveTo(AfterFailure(testWorks, plWork, testImages, plImage))
    /\ UNCHANGED <<testWorks, testImages>>
    /\ UNCHANGED nonPlVars

\* await uploadImageToR2(work.workId, phase, attachmentId, buffer, fileName)
PlUpload(put) ==
    LET testImage == testImages[plImage]
    IN  /\ plPc = "upload"
        /\ plLog' = Append(plLog,
                LogEntry("upload", plWork, plImage, put = "stored", 0,
                         uploadKey(testWorks[plWork], testImage.phase,
                                   testImage.attachmentId, testImage.fileName)))
        /\ MoveTo(AfterImage(testWorks, plWork, testImages, plImage))
        /\ UNCHANGED <<testWorks, testImages>>
        /\ UNCHANGED nonPlVars

PlStarts ==
    \E dbOk \in BOOLEAN, completed \in CompletedWorks, recommended \in RecommendedWorks :
        PlStart(dbOk, completed, recommended)

PlLookups == \E resp1 \in PipelineResponses, resp3 \in PipelineResponses : PlImages(resp1, resp3)

PlDownloads == \E ok \in BOOLEAN : PlDownload(ok)

PlUploads == \E put \in {"stored", "rejected"} : PlUpload(put)

InitPlVars ==
    /\ plPc = "start"
    /\ testWorks = <<>>
    /\ plWork = 0
    /\ testImages = <<>>
    /\ plImage = 0
    /\ plLog = <<>>

(***************************************************************************)
(* The text parsers of the transformer (part_000 lines 629-708).  A number *)
(* is a decimal m * 10^e, m without trailing zeros: what parseFloat reads  *)
(* from a short run of digits, without the rounding of a binary double.    *)
(***************************************************************************)
\* The characters U+20B9 (the rupee sign) and U+00A0 (a no-break space).
Rupee == "U+20B9"
Nbsp == "U+00A0"

Dec(m, e) == [m |-> m, e |-> e]
Zero == Dec(0, 0)

\* The sentinels of /^(-|N\/A|null|undefined|--)$/.
NumberSentinels ==
    { <<"-">>, StrNA, <<"n", "u", "l", "l">>,
      <<"u", "n", "d", "e", "f", "i", "n", "e", "d">>, <<"-", "-">> }

\* s.replace(/₹/g, '').replace(/[ ...\s]/g, '').replace(/,/g, '')
StripCurrency(s) == SelectSeq(s, LAMBDA c : c \notin {Rupee, Nbsp, " ", ","})

\* The length of the run of digits s starts with.
RECURSIVE DigitRun(_)
DigitRun(s) == IF s # <<>> /\ IsDigit(Head(s)) THEN 1 + DigitRun(Tail(s)) ELSE 0

\* s.match(/([0-9]+(?:\.[0-9]+)?)/): the leftmost run of digits, with a fraction
\* when a dot and a digit follow it.  first is 0 when nothing matches.
NumericMatch(s) ==
    IF \A i \in DOMAIN s : ~IsDigit(s[i])
    THEN [first |-> 0, int |-> <<>>, frac |-> <<>>, last |-> 0]
    ELSE LET first == CHOOSE i \in DOMAIN s :
                          IsDigit(s[i]) /\ \A j \in 1..(i - 1) : ~IsDigit(s[j])
             intLen == DigitRun(SubSeq(s, first, Len(s)))
             after == SubSeq(s, first + intLen, Len(s))
             fracLen == IF after # <<>> /\ Head(after) = "." THEN DigitRun(Tail(after)) ELSE 0
         IN  [first |-> first,
              int |-> SubSeq(s, first, first + intLen - 1),
              frac |-> IF fracLen > 0 THEN SubSeq(after, 2, fracLen + 1) ELSE <<>>,
              last |-> IF fracLen > 0 THEN first + intLen + fracLen
                       ELSE first + intLen - 1]

RECURSIVE StripTrailingZeros(_)
StripTrailingZeros(digits) ==
    IF digits # <<>> /\ digits[Len(digits)] = "0"
    THEN StripTrailingZeros(SubSeq(digits, 1, Len(digits) - 1))
    ELSE digits

\* parseFloat of a run of digits and the digits of its fraction.
parseFloat(int, frac) ==
    LET significant == StripTrailingZeros(int \o frac)
    IN  IF DigitsValue(significant, 0) = 0 THEN Zero
        ELSE Dec(DigitsValue(significant, 0),
                 Len(int \o frac) - Len(significant) - Len(frac))

StrCr == <<"c", "r">>
StrLac == <<"l", "a", "c">>
StrLakh == <<"l", "a", "k", "h">>

\* num *= 10000000 for a crore suffix, num *= 100000 for a lakh suffix.
Scale(num, suffix) ==
    IF num = Zero THEN Zero
    ELSE IF includes(suffix, StrCr) THEN Dec(num.m, num.e + 7)
    ELSE IF includes(suffix, StrLac) \/ includes(suffix, StrLakh) THEN Dec(num.m, num.e + 5)
    ELSE num

\* parseIndianNumber(str) for a string str.
parseIndianNumber(str) ==
    LET s == trim(str)
    IN  IF s = <<>> \/ s \in NumberSentinels THEN Zero
        ELSE LET stripped == StripCurrency(s)
                 m == NumericMatch(stripped)
             IN  IF m.first = 0 THEN Zero
                 ELSE Scale(parseFloat(m.int, m.frac),
                            toLowerCase(SubSeq(stripped, m.last + 1, Len(stripped))))

Zeros(n) == [i \in 1..n |-> "0"]

\* num.toString(): plain digits while 1e-7 <= num < 1e21, the exponent form beyond.
NumberToString(num) ==
    LET digits == DecimalString(num.m)
        k == Len(digits)
        n == k + num.e
    IN  IF num.m = 0 THEN <<"0">>
        ELSE IF k <= n /\ n <= 21 THEN digits \o Zeros(n - k)
        ELSE IF 0 < n /\ n <= 21
             THEN SubSeq(digits, 1, n) \o <<".">> \o SubSeq(digits, n + 1, k)
        ELSE IF -6 < n /\ n <= 0 THEN <<"0", ".">> \o Zeros(0 - n) \o digits
        ELSE (IF k = 1 THEN digits ELSE <<digits[1], ".">> \o SubSeq(digits, 2, k))
             \o <<"e">>
             \o (IF n - 1 >= 0 THEN <<"+">> \o DecimalString(n - 1)
                 ELSE <<"-">> \o DecimalString(1 - n))

\* The texts parseIndianNumber is given: a sentinel or a word, or an amount made
\* of a lead, a number and a unit.
AmountLeads == {<<>>, <<Rupee>>, <<Rupee, " ">>, <<"-">>}
AmountNumbers ==
    { <<"5">>, <<"0">>, <<"1", "2", ".", "5", "0">>, <<"1", ",", "2", "3", ",", "4", "5", "6">>,
      <<"0", ".", "0", "0", "0", "0", "0", "0", "1">>, <<"0", ".", "0", "0", "0", "0", "0", "1">>,
      <<"7", ".">>, <<".", "5">>, <<"1", "e", "5">>, <<"2", Nbsp, "0", "0", "0">>,
      <<"1", "0", "0", "0", "0", "0", "0", "0", "0", "0", "0", "0", "0", "0", "0">> }
AmountUnits ==
    { <<>>, <<" ", "C", "r">>, <<"c", "r", "o", "r", "e", "s">>, <<" ", "L", "A", "C">>,
      <<" ", "l", "a", "k", "h", "s">>, <<" ", "x">> }

NumberInputs ==
    NumberSentinels
    \cup {<<>>, <<" ", " ">>, <<" ", "-", " ">>, <<"a", "b", "c">>, <<Rupee>>}
    \cup {lead \o number \o unit :
            lead \in AmountLeads, number \in AmountNumbers, unit \in AmountUnits}

NoParse == [op |-> "none", number |-> Zero, text |-> <<>>, again |-> Zero,
            isNull |-> FALSE, east |-> FALSE]

\* parseIndianNumber applied to the input, its result written as a string, and
\* parseIndianNumber applied to that string.
ParseIndianNumber ==
    /\ pCall.op = "none"
    /\ pCall' = [NoParse EXCEPT
                    !.op = "parseIndianNumber",
                    !.number = parseIndianNumber(pIn),
                    !.text = NumberToString(parseIndianNumber(pIn)),
                    !.again = parseIndianNumber(NumberToString(parseIndianNumber(pIn)))]
    /\ UNCHANGED pIn
    /\ UNCHANGED nonParseVars

\* str.split(sep) for a separator of one character.
RECURSIVE Split(_, _)
Split(str, sep) ==
    IF \A i \in DOMAIN str : str[i] # sep THEN <<str>>
    ELSE LET at == CHOOSE i \in DOMAIN str :
                       str[i] = sep /\ \A j \in 1..(i - 1) : str[j] # sep
         IN  <<SubSeq(str, 1, at - 1)>> \o Split(SubSeq(str, at + 1, Len(str)), sep)

\* str.padStart(2, '0')
padStart(str) == IF Len(str) >= 2 THEN str ELSE Zeros(2 - Len(str)) \o str

\* The months table of parseDate: token, number.
months ==
    << <<<<"j", "a", "n">>, 1>>, <<<<"f", "e", "b">>, 2>>, <<<<"m", "a", "r">>, 3>>,
       <<<<"a", "p", "r">>, 4>>, <<<<"m", "a", "y">>, 5>>, <<<<"j", "u", "n">>, 6>>,
       <<<<"j", "u", "l">>, 7>>, <<<<"a", "u", "g">>, 8>>, <<<<"s", "e", "p">>, 9>>,
       <<<<"s", "e", "p", "t">>, 9>>, <<<<"o", "c", "t">>, 10>>, <<<<"n", "o", "v">>, 11>>,
       <<<<"d", "e", "c">>, 12>> >>

\* months[monthToken]: the two digits of the month, <<>> for a token not in the table.
MonthOf(monthToken) ==
    IF \A i \in DOMAIN months : months[i][1] # monthToken THEN <<>>
    ELSE padStart(DecimalString(months[CHOOSE i \in DOMAIN months : months[i][1] = monthToken][2]))

AllDigits(str) == \A i \in DOMAIN str : IsDigit(str[i])

InvalidDate == [valid |-> FALSE, year |-> 0, month |-> 0, day |-> 0, local |-> FALSE]

\* new Date(str): the date-only ISO form YYYY-MM-DD is a UTC date; the form
\* YYYY/MM/DD is read by the runtime as a local date; any other text handed to it
\* here is an Invalid Date.
NewDate(str) ==
    IF /\ Len(str) = 10
       /\ str[5] = str[8] /\ str[5] \in {"-", "/"}
       /\ AllDigits(SubSeq(str, 1, 4)) /\ AllDigits(SubSeq(str, 6, 7))
       /\ AllDigits(SubSeq(str, 9, 10))
    THEN LET y == DigitsValue(SubSeq(str, 1, 4), 0)
             m == DigitsValue(SubSeq(str, 6, 7), 0)
             d == DigitsValue(SubSeq(str, 9, 10), 0)
         IN  IF m \in 1..12 /\ d >= 1 /\ d <= MonthLengths[IF m \in 1..12 THEN m ELSE 1]
             THEN [valid |-> TRUE, year |-> y, month |-> m, day |-> d, local |-> str[5] = "/"]
             ELSE InvalidDate
    ELSE InvalidDate

\* The digits of the year, padded to four.
YearString(y) == Zeros(4 - Len(DecimalString(y))) \o DecimalString(y)

\* date.toISOString().split('T')[0]: the UTC day of the date.  Local midnight falls
\* on the day before in UTC where local time is ahead of UTC (east).
toISODate(date, east) ==
    LET back == date.local /\ east
        y == IF back /\ date.day = 1 /\ date.month = 1 THEN date.year - 1 ELSE date.year
        m == IF back /\ date.day = 1 THEN (IF date.month = 1 THEN 12 ELSE date.month - 1)
             ELSE date.month
        d == IF back THEN (IF date.day = 1 THEN MonthLengths[m] ELSE date.day - 1)
             ELSE date.day
    IN  YearString(y) \o <<"-">> \o padStart(DecimalString(m)) \o <<"-">>
            \o padStart(DecimalString(d))

\* What parseDate returns: null, or a string.
NullDate == [isNull |-> TRUE, text |-> <<>>]
DateString(text) == [isNull |-> FALSE, text |-> text]

\* The branch of parseDate for a text with a hyphen.
ParseTriad(cleanDateStr) ==
    LET parts == Split(cleanDateStr, "-")
    IN  IF Len(parts) # 3 THEN NullDate
        ELSE LET day == padStart(parts[1])
                 monthToken == toLowerCase(SubSeq(parts[2], 1, Min(4, Len(parts[2]))))
                 month == MonthOf(monthToken)
                 year == parts[3]
                 text == year \o <<"-">> \o month \o <<"-">> \o day
             IN  IF month = <<>> \/ year = <<>> \/ parseInt(day).nan THEN NullDate
                 ELSE IF ~NewDate(text).valid THEN NullDate
                 ELSE DateString(text)

\* The ISO fallback of parseDate.
ParseIso(cleanDateStr, east) ==
    IF NewDate(cleanDateStr).valid
    THEN DateString(toISODate(NewDate(cleanDateStr), east))
    ELSE NullDate

\* parseDate(dateStr) for a string dateStr.
parseDate(dateStr, east) ==
    IF dateStr = <<>> \/ dateStr = StrNA \/ trim(dateStr) = <<>> THEN NullDate
    ELSE LET cleanDateStr == trim(dateStr)
         IN  IF includes(cleanDateStr, <<"-">>) THEN ParseTriad(cleanDateStr)
             ELSE ParseIso(cleanDateStr, east)

\* The texts parseDate is given: day-month-year texts, and others.
DayTexts == {<<"1", "5">>, <<"5">>, <<"3", "2">>, <<"a", "b">>, <<"a">>, <<>>}
MonthTexts ==
    { <<"A", "u", "g">>, <<"a", "u", "g">>, <<"S", "e", "p", "t">>, <<"S", "e", "p">>,
      <<"A", "u", "g", "u", "s", "t">>, <<"0", "8">>, <<"x", "y", "z">>, <<>> }
YearTexts == {<<"2", "0", "2", "5">>, <<>>}

DateInputs ==
    {day \o <<"-">> \o month \o <<"-">> \o year :
        day \in DayTexts, month \in MonthTexts, year \in YearTexts}
    \cup { <<>>, StrNA, <<" ", " ">>, <<"a", "b", "c">>,
           <<"2", "0", "2", "5", "-", "0", "8", "-", "1", "5">>,
           <<"2", "0", "2", "5", "/", "0", "8", "/", "1", "5">>,
           <<"2", "0", "2", "5", "/", "0", "3", "/", "0", "1">>,
           <<"2", "0", "2", "5", "/", "1", "3", "/", "1", "5">>,
           <<"2", "0", "2", "5", "0", "8", "1", "5">>,
           <<"1", "5", "-", "0", "8">>,
           <<" ", "1", "5", "-", "A", "u", "g", "-", "2", "0", "2", "5", " ">>,
           <<"1", "5", "-", "A", "u", "g", "-", "2", "0", "2", "5", "-", "x">> }

\* parseDate applied to the input, where local time is ahead of UTC or is not.
ParseDate(east) ==
    /\ pCall.op = "none"
    /\ pCall' = [NoParse EXCEPT !.op = "parseDate",
                                !.isNull = parseDate(pIn, east).isNull,
                                !.text = parseDate(pIn, east).text,
                                !.east = east]
    /\ UNCHANGED pIn
    /\ UNCHANGED nonParseVars

InitParseVars ==
    /\ pIn = <<>>
    /\ pCall = NoParse

(***************************************************************************)
(* The mailing-list form (MailingListForm.jsx): the state of the component *)
(* and its handlers.  Texts are strings; '' is the empty text.             *)
(***************************************************************************)
\* What the e-mail field may hold after sanitizeEmail: nothing, or an address.
EmailTexts == {"", "a@b.in", "c@d.in"}

\* The submit events one form receives at most.
MaxSubmits == 3

\* How subscribeToMailingList may settle: it resolves with res.message, or it
\* rejects with err.response.status (0: no response), err.response.data.message
\* and err.response.data.error.
Subscribed(message) == [ok |-> TRUE, status |-> 200, message |-> message, error |-> ""]

SubscribeFailed(status, message, error) ==
    [ok |-> FALSE, status |-> status, message |-> message, error |-> error]

NoAnswer == [ok |-> FALSE, status |-> -1, message |-> "", error |-> ""]

SubscribeAnswers ==
    {Subscribed("Check your mail"), Subscribed(""),
     SubscribeFailed(409, "Already subscribed", ""),
     SubscribeFailed(400, "Invalid email", ""),
     SubscribeFailed(429, "", "Too many requests"),
     SubscribeFailed(500, "", ""),
     SubscribeFailed(0, "", "")}

\* err?.response?.data?.message || err?.response?.data?.error
ErrorMessage(resp) == IF resp.message # "" THEN resp.message ELSE resp.error

\* A handler whose setLoading(false) stands at the end of the try block.
AfterSubscribeNoFinally(resp) ==
    IF resp.ok
    THEN [toast |-> IF resp.message # "" THEN resp.message ELSE "Verification email sent",
          submitted |-> TRUE, alreadySubscribed |-> alreadySubscribed,
          inlineError |-> inlineError, loading |-> FALSE]
    ELSE [toast |-> mlToast, submitted |-> submitted,
          alreadySubscribed |-> IF resp.status = 409 THEN TRUE ELSE alreadySubscribed,
          inlineError |->
              IF resp.status = 409 THEN inlineError
              ELSE IF ErrorMessage(resp) # "" THEN ErrorMessage(resp)
              ELSE "Something went wrong. Please try again later.",
          loading |-> loading]

\* The state handleSubmit leaves once subscribeToMailingList has settled: the rest
\* of the try block, or the catch block, and then the finally block.
AfterSubscribe(resp) ==
    IF resp.ok
    THEN [toast |-> IF resp.message # "" THEN resp.message ELSE "Verification email sent",
          submitted |-> TRUE, alreadySubscribed |-> alreadySubscribed,
          inlineError |-> inlineError, loading |-> FALSE]
    ELSE [toast |-> mlToast, submitted |-> submitted,
          alreadySubscribed |-> IF resp.status = 409 THEN TRUE ELSE alreadySubscribed,
          inlineError |->
              IF resp.status = 409 THEN inlineError
              ELSE IF ErrorMessage(resp) # "" THEN ErrorMessage(resp)
              ELSE "Something went wrong. Please try again later.",
          loading |-> FALSE]

\* onChange of the e-mail field; the field is disabled while loading and is not
\* rendered once submitted.
SetEmail(text) ==
    /\ ~submitted
    /\ ~loading
    /\ email' = text
    /\ UNCHANGED <<loading, submitted, alreadySubscribed, inlineError, mlPc, mlSubmits,
                   mlSent, mlToast, mlAnswer>>
    /\ UNCHANGED nonMailVars

\* handleSubmit up to its return (no e-mail) or to its await; the form is not
\* rendered once submitted and its button is disabled while loading.
HandleSubmit ==
    /\ ~submitted
    /\ ~loading
    /\ mlPc = "idle"
    /\ mlSubmits < MaxSubmits
    /\ mlSubmits' = mlSubmits + 1
    /\ IF email = ""
       THEN /\ mlToast' = "Please enter your email"
            /\ UNCHANGED <<loading, alreadySubscribed, inlineError, mlPc, mlSent>>
       ELSE /\ loading' = TRUE
            /\ alreadySubscribed' = FALSE
            /\ inlineError' = ""
            /\ mlSent' = mlSent + 1
            /\ mlPc' = "pending"
            /\ UNCHANGED mlToast
    /\ UNCHANGED <<email, submitted, mlAnswer>>
    /\ UNCHANGED nonMailVars

\* subscribeToMailingList settles with resp and handleSubmit runs to its end.
SubscribeSettles(resp) ==
    /\ mlPc = "pending"
    /\ mlAnswer' = resp
    /\ mlToast' = AfterSubscribe(resp).toast
    /\ submitted' = AfterSubscribe(resp).submitted
    /\ alreadySubscribed' = AfterSubscribe(resp).alreadySubscribed
    /\ inlineError' = AfterSubscribe(resp).inlineError
    /\ loading' = AfterSubscribe(resp).loading
    /\ mlPc' = "idle"
    /\ UNCHANGED <<email, mlSubmits, mlSent>>
    /\ UNCHANGED nonMailVars

SetEmails == \E text \in EmailTexts : SetEmail(text)

SubscribeSettle == \E resp \in SubscribeAnswers : SubscribeSettles(resp)

\* const [email, setEmail] = useState(''), and the other four.
InitMailVars ==
    /\ email = ""
    /\ loading = FALSE
    /\ submitted = FALSE
    /\ alreadySubscribed = FALSE
    /\ inlineError = ""
    /\ mlPc = "idle"
    /\ mlSubmits = 0
    /\ mlSent = 0
    /\ mlToast = ""
    /\ mlAnswer = NoAnswer

SessionSteps ==
    \/ \E given \in {Null} \cup GivenCookies : Construct(given)
    \/ \E resp \in QuickResponses : QuickTestDone(resp)
    \/ \E o \in BootstrapOutcomes, written \in BOOLEAN : BootstrapDone(o, written)
    \/ \E resp \in FetchResponses("works_completed") : TestDone(resp)

InitSession ==
    /\ now = StartTime
    /\ sessionFile = NoFile
    /\ sessionCookies = Null
    /\ csrfToken = ""
    /\ pc = "off"
    /\ caller = "none"
    /\ validateRes = Unset
    /\ quickResp = NoResp
    /\ bootstrapCalls = 0
    /\ bootstrapRes = Unset
    /\ sessionReady = Unset
    /\ ensureCalls = 0
    /\ startup = NoStartup
    /\ req = NoReq
    /\ boot = NoBoot

\* The client before its process starts, at StartTime.
InitClient == InitSession /\ InitCycleVars

InitMore == InitImgVars /\ InitMdVars /\ InitPlVars /\ InitParseVars /\ InitMailVars

InitOld == InitClient /\ InitDlVars /\ InitStoreVars /\ InitTrVars /\ InitFetchVars /\ InitRowVars

InitRest == InitDlVars /\ InitStoreVars /\ InitTrVars /\ InitFetchVars /\ InitRowVars /\ InitMore

Init == InitClient /\ InitRest

\* One run of the client that makes one cycle: the session file it finds is absent
\* or fresh.
InitCycle ==
    /\ InitCycleVars
    /\ InitRest
    /\ now = MaxTime
    /\ sessionFile \in {NoFile} \cup {SessionData(c, "", t) : c \in PortalCookies,
                                                             t \in {MaxTime}}
    /\ sessionCookies = Null
    /\ csrfToken = ""
    /\ pc = "off"
    /\ caller = "none"
    /\ validateRes = Unset
    /\ quickResp = NoResp
    /\ bootstrapCalls = 0
    /\ bootstrapRes = Unset
    /\ sessionReady = Unset
    /\ ensureCalls = 0
    /\ startup = NoStartup
    /\ req = NoReq
    /\ boot = NoBoot

NextCycle ==
    \/ SessionSteps
    \/ \E option \in Policies : StartCycle(option)
    \/ AfterSession
    \/ FetchSettles
    \/ SleepDone

\* One cycle of the driver, from the start of the process to the end of fetchAllData.
SpecCycle == InitCycle /\ [][NextCycle]_vars

InitDownload == InitClient /\ InitRest

NextDownload ==
    \/ DownloadStart
    \/ DownloadSettle
    \/ DownloadWake

\* One call of downloadImageData.
SpecDownload == InitDownload /\ [][NextDownload]_vars

\* One call of downloadImageData whose requests all answer or fail and whose
\* timers all fire.
SpecDownloadFair == SpecDownload /\ WF_vars(DownloadSettle) /\ WF_vars(DownloadWake)

\* The session files a process may find: none, one this client wrote, and one that
\* also holds a CSRF token.
FilesAtStart ==
    {NoFile} \cup {SessionData(c, t, StartTime) : c \in PortalCookies, t \in {"", "csrf1"}}

InitFetch ==
    /\ InitCycleVars
    /\ InitRest
    /\ now = StartTime
    /\ sessionFile \in FilesAtStart
    /\ sessionCookies = Null
    /\ csrfToken = ""
    /\ pc = "off"
    /\ caller = "none"
    /\ validateRes = Unset
    /\ quickResp = NoResp
    /\ bootstrapCalls = 0
    /\ bootstrapRes = Unset
    /\ sessionReady = Unset
    /\ ensureCalls = 0
    /\ startup = NoStartup
    /\ req = NoReq
    /\ boot = NoBoot

NextFetch ==
    \/ \E given \in {Null} \cup GivenCookies : Construct(given)
    \/ FetchCalls
    \/ FetchReturns

\* A process that constructs its client and calls fetchData.
SpecFetch == InitFetch /\ [][NextFetch]_vars

InitStore == InitClient /\ InitRest

InitRows ==
    /\ InitClient
    /\ InitDlVars
    /\ InitStoreVars
    /\ InitTrVars
    /\ InitFetchVars
    /\ InitMore
    /\ rowsIn \in SeqsUpTo(RowUniverse, MaxRows)
    /\ rowCall = NoRowCall
    /\ rowsOut = <<>>

NextRows ==
    \/ ApplyAllocatedLimit
    \/ ApplyExpenditure
    \/ ApplyWorksCompleted
    \/ ApplyWorksRecommended

\* One transform applied to one list of rows.
SpecRows == InitRows /\ [][NextRows]_vars

InitImages == InitOld /\ InitMore

NextImages == GetWorkImages

\* Calls of getWorkImages against the portal.
SpecImages == InitImages /\ [][NextImages]_vars

InitSchedule ==
    /\ InitOld
    /\ InitImgVars
    /\ InitPlVars
    /\ InitParseVars
    /\ InitMailVars
    /\ mdNow \in ScheduleDates
    /\ mdDocs = <<>>
    /\ mdCall = NoMdCall

NextSchedule == \E frequency \in Frequencies : CalculateNextUpdate(frequency)

\* calculateNextUpdate called once at some time of the first quarter of 2025.
SpecSchedule == InitSchedule /\ [][NextSchedule]_vars

InitMetadata == InitOld /\ InitMore

NextMetadata ==
    \/ MdTick
    \/ UpdateDataSyncMetadata
    \/ ShouldUpdateData

\* The metadata manager against one collection, empty at first, as time passes.
SpecMetadata == InitMetadata /\ [][NextMetadata]_vars

InitPipeline == InitOld /\ InitMore

NextPipeline ==
    \/ PlStarts
    \/ PlLookups
    \/ PlDownloads
    \/ PlUploads

\* One run of testSingleWork.
SpecPipeline == InitPipeline /\ [][NextPipeline]_vars

InitNumbers ==
    /\ InitOld
    /\ InitImgVars
    /\ InitMdVars
    /\ InitPlVars
    /\ InitMailVars
    /\ pIn \in NumberInputs
    /\ pCall = NoParse

NextNumbers == ParseIndianNumber

\* parseIndianNumber applied to one text.
SpecNumbers == InitNumbers /\ [][NextNumbers]_vars

InitDates ==
    /\ InitOld
    /\ InitImgVars
    /\ InitMdVars
    /\ InitPlVars
    /\ InitMailVars
    /\ pIn \in DateInputs
    /\ pCall = NoParse

NextDates == \E east \in BOOLEAN : ParseDate(east)

\* parseDate applied to one text.
SpecDates == InitDates /\ [][NextDates]_vars

InitMailing == InitOld /\ InitMore

NextMailing ==
    \/ SetEmails
    \/ HandleSubmit
    \/ SubscribeSettle

\* One mounted mailing-list form, its user and the subscription service.
SpecMailing == InitMailing /\ [][NextMailing]_vars

NextStore ==
    \/ Upload
    \/ Exists

\* The uploader against one bucket, empty at first.
SpecStore == InitStore /\ [][NextStore]_vars

InitTransform ==
    /\ InitClient
    /\ InitDlVars
    /\ InitStoreVars
    /\ InitFetchVars
    /\ InitRowVars
    /\ InitMore
    /\ apiData \in Batches
    /\ trOptions \in TransformOptions
    /\ trPc = "input"
    /\ trResults = NoBatch

NextTransform == TransformAll

\* transformAllData applied to one batch.
SpecTransform == InitTransform /\ [][NextTransform]_vars

Next ==
    \/ SessionSteps
    \/ CallEnsure
    \/ Exit
    \/ Tick

\* The session manager over several runs of the client.
Spec == Init /\ [][Next]_vars

(***************************************************************************)
(* Properties.                                                             *)
(***************************************************************************)

\* C1: ensureValid() returns true without calling bootstrap() whenever validate()
\* returned true; whenever validate() returned false it calls bootstrap() exactly
\* once and returns exactly bootstrap()'s result.
C1_EnsureValid ==
    /\ bootstrapCalls <= 1
    /\ validateRes = "true" => (bootstrapCalls = 0 /\ sessionReady = "true")
    /\ validateRes = "false" => bootstrapCalls = 1
    /\ sessionReady # Unset =>
          /\ validateRes \in {"true", "false"}
          /\ validateRes = "false" => sessionReady = bootstrapRes

\* C1 witness: validate()'s request failed, bootstrap() ran once and its result,
\* true, is what ensureValid() returned.
C1_Witness ==
    /\ quickResp.net = "error"
    /\ validateRes = "false"
    /\ bootstrapCalls = 1
    /\ bootstrapRes = "true"
    /\ sessionReady = "true"

\* The session file the constructor found was 4 hours old or older.
StaleAtStartup ==
    /\ startup.loaded
    /\ startup.file.exists
    /\ now - startup.file.timestamp >= SessionTTL

\* C9: at startup a persisted session is loaded only if its timestamp is less than
\* 4 hours old; a file 4 hours old or older is discarded (deleted), the client
\* starts with no session, and the next ensureValid() calls bootstrap() without a
\* validation request.
C9_LoadSession ==
    /\ (startup.loaded /\ ensureCalls = 0 /\ sessionCookies # Null) =>
          /\ startup.file.exists
          /\ now - startup.file.timestamp < SessionTTL
          /\ sessionCookies = startup.file.cookies
    /\ (StaleAtStartup /\ ensureCalls = 0) =>
          /\ sessionCookies = Null
          /\ sessionFile = NoFile
    /\ (StaleAtStartup /\ ensureCalls = 1) =>
          /\ bootstrapCalls = 1
          /\ validateRes = "false"
          /\ quickResp = NoResp

\* C9 witness: a file exactly 4 hours old was found at startup, and the first
\* ensureValid() is bootstrapping.
C9_Witness ==
    /\ StaleAtStartup
    /\ now - startup.file.timestamp = SessionTTL
    /\ ensureCalls = 1
    /\ pc = "bootstrap"

\* C10: validate() never throws; it returns true only when its report request
\* answered HTTP 200 with a parseable JSON body, and false on a non-200 status, a
\* malformed body, a network error or a timeout.
C10_Validate ==
    /\ validateRes \in {Unset, "true", "false"}
    /\ validateRes = "true" =>
          /\ quickResp.net = "ok"
          /\ quickResp.status = 200
          /\ quickResp.body # "malformed"
    /\ (quickResp # NoResp /\ (\/ quickResp.net # "ok"
                               \/ quickResp.status # 200
                               \/ quickResp.body = "malformed")) =>
          validateRes = "false"

\* C10 witness: the request answered 200 with a body that is not JSON, and
\* validate() returned false.
C10_Witness ==
    /\ quickResp.net = "ok"
    /\ quickResp.status = 200
    /\ quickResp.body = "malformed"
    /\ validateRes = "false"

\* C2: in the cycle driver ensureValid() is called, and has returned true, before
\* the cycle's first chamber fetch; when it returns false the cycle ends with an
\* error, and no report request of that cycle is issued after it returned.
C2_SessionBeforeFetch ==
    /\ (chamberReqs > 0 \/ pc \in {"fetch", "sleep"}) =>
          /\ caller = "cycle"
          /\ ensureCalls = 1
          /\ sessionReady = "true"
    /\ (caller = "cycle" /\ sessionReady = "false" /\ pc # "ensured") =>
          /\ pc = "done"
          /\ outcome = "threw"
    /\ (caller = "cycle" /\ sessionReady = "false") =>
          /\ chamberReqs = 0
          /\ req = NoReq

\* C2 witness: ensureValid() returned false after a failed bootstrap, and the
\* cycle has ended with the error.
C2_Witness ==
    /\ sessionReady = "false"
    /\ startup.loaded
    /\ outcome = "threw"
    /\ pc = "done"

\* The bucket fetchAllData assigns for a call.
Bucket(call) ==
    CASE call = "lok_sabha_18" -> lok18
      [] call = "lok_sabha_17" -> lok17
      [] call = "rajya_sabha" -> rajyaSabhaData

\* The results object that holds the entry of the last settled fetchData: that of
\* the running call, or the bucket of the call that has just returned.
LastResults ==
    IF lastFetch.kind \in DOMAIN results
    THEN results
    ELSE Bucket(HouseCalls(lsTermOption)[callIdx - 1])

\* C4: fetchAllForChamber never fails: when the fetch of one report kind fails, that
\* kind's result is the empty sequence, every remaining kind is still fetched (each
\* kind of each call gets its request), and the returned result has an entry for
\* each of the 4 report kinds.
C4_ChamberNeverFails ==
    /\ (lastFetch.kind # "none" /\ ~lastFetch.ok) => LastResults[lastFetch.kind] = <<>>
    /\ outcome = "threw" => (sessionReady = "false" /\ lastFetch = NoFetch)
    /\ pc = "fetch" => DOMAIN results = {dataTypes[i] : i \in 1..(kindIdx - 1)}
    /\ pc = "sleep" => DOMAIN results = {dataTypes[i] : i \in 1..kindIdx}
    /\ callIdx >= 1 =>
          /\ chamberReqs = Len(dataTypes) * (callIdx - 1) + kindIdx
          /\ \A c \in 1..(callIdx - 1) :
                DOMAIN Bucket(HouseCalls(lsTermOption)[c]) = DataTypeSet
    /\ outcome = "returned" =>
          /\ callIdx = Len(HouseCalls(lsTermOption))
          /\ \A c \in 1..callIdx : DOMAIN Bucket(HouseCalls(lsTermOption)[c]) = DataTypeSet

\* C4 witness: the fetch of the second kind failed, its entry is the empty
\* sequence and the request of the third kind is in flight.
C4_Witness ==
    /\ pc = "fetch"
    /\ kindIdx = 3
    /\ lastFetch = [kind |-> "works_recommended", ok |-> FALSE]
    /\ results["works_recommended"] = <<>>
    /\ req.key = KeyExpenditure

\* A retryable error in the words of the specification: a network-class error, an
\* HTTP 5xx or an HTTP 429.
SpecRetryable(e) ==
    \/ e.class = "network"
    \/ e.class = "http" /\ (e.status = 429 \/ (e.status >= 500 /\ e.status <= 599))

\* A non-retryable error in the words of the specification: an HTTP 4xx other
\* than 429, or a response of malformed shape.
SpecNonRetryable(e) ==
    \/ e.class = "http" /\ e.status >= 400 /\ e.status <= 499 /\ e.status # 429
    \/ e.class = "shape"

\* C5: one call of downloadAttachment issues at most 3 download requests; attempt
\* k+1 is issued only after attempt k failed with a retryable error, and a
\* successful attempt ends the call with no further request.
C5_AtMostThreeAttempts ==
    /\ dlRequests <= 3
    /\ dlRequests = attempt
    /\ \A k \in 1..(attempt - 1) :
          /\ k \in DOMAIN dlErrors
          /\ dlErrors[k].attempt = k
          /\ SpecRetryable(dlErrors[k])
    /\ dlPc \in {"request", "returned"} => Len(dlErrors) = attempt - 1
    /\ dlPc = "returned" => dlThrown = NoError

\* C5 witness: the third attempt succeeded after an HTTP 429 and a network error.
C5_Witness ==
    /\ dlPc = "returned"
    /\ attempt = 3
    /\ dlRequests = 3
    /\ dlErrors[1].status = 429
    /\ dlErrors[2].class = "network"

\* C6: when an attempt fails with a non-retryable error (an HTTP 4xx other than
\* 429, or a malformed shape), downloadAttachment fails at once with that error,
\* with no backoff sleep and no further attempt, on whichever attempt it occurs.
C6_NonRetryableFailsAtOnce ==
    \A k \in DOMAIN dlErrors :
        SpecNonRetryable(dlErrors[k]) =>
            /\ k = Len(dlErrors)
            /\ dlPc = "threw"
            /\ dlThrown = dlErrors[k]
            /\ attempt = k
            /\ dlRequests = k
            /\ Len(dlDelays) = k - 1

\* C6 witness: the second attempt brought a response of malformed shape, and the
\* call has thrown.
C6_Witness ==
    /\ Len(dlErrors) = 2
    /\ dlErrors[2].class = "shape"
    /\ dlPc = "threw"
    /\ Len(dlDelays) = 1

\* C7: when all 3 attempts fail with retryable errors, the call fails with the
\* error of the third attempt.
C7_LastErrorSurfaces ==
    (Len(dlErrors) = 3 /\ \A k \in 1..3 : SpecRetryable(dlErrors[k])) =>
        /\ dlPc = "threw"
        /\ dlThrown = dlErrors[3]
        /\ dlThrown.attempt = 3

\* C7 witness: three retryable failures of different kinds, the last an HTTP 503,
\* which is the error thrown.
C7_Witness ==
    /\ Len(dlErrors) = 3
    /\ dlErrors[1].code = "ETIMEDOUT"
    /\ dlErrors[2].status = 429
    /\ dlErrors[3].status = 503
    /\ dlThrown.status = 503
    /\ dlPc = "threw"


\* The triple of the uploader's last call.
CallTriple == <<stCall.workId, stCall.phase, stCall.attachmentId>>

\* C8: whenever the store answers the probe of exists(workId, phase, attachmentId),
\* exists returns true if upload has succeeded for that triple and returns false,
\* as a normal result, if upload was never called for it.
C8_RoundTrip ==
    (stCall.op = "exists" /\ stCall.store \in {"found", "NotFound"}) =>
        /\ CallTriple \in uploaded => stCall.outcome = "true"
        /\ CallTriple \notin attempted => stCall.outcome = "false"

\* The work ids of a list of output records.
WorkIdsOf(records) == {records[i].workId : i \in DOMAIN records}

Houses == {"lok_sabha", "rajya_sabha"}

\* C3, as stated: after transformAllData no recommended record of the output has
\* the work id of a completed record of the output, whatever their houses.
C3_NoCompletedIdInBatch ==
    trPc = "done" =>
        \A h \in Houses, g \in Houses :
            WorkIdsOf(trResults[h].works_recommended)
                \cap WorkIdsOf(trResults[g].works_completed) = {}

\* C3, amended: after transformAllData no recommended record of a house has the
\* work id of a completed record of the same house.
C3_NoCompletedIdInHouse ==
    trPc = "done" =>
        \A h \in Houses :
            WorkIdsOf(trResults[h].works_recommended)
                \cap WorkIdsOf(trResults[h].works_completed) = {}

\* A batch whose Lok Sabha recommended rows hold a work that its completed
\* output holds too, and another work that stays recommended.
C3_Witness ==
    /\ trPc = "done"
    /\ \E i \in DOMAIN apiData.lok_sabha.works_recommended :
           workIdOf(apiData.lok_sabha.works_recommended[i])
               \in WorkIdsOf(trResults.lok_sabha.works_completed)
    /\ trResults.lok_sabha.works_recommended # <<>>
    /\ trResults.lok_sabha.works_completed # <<>>

\* The GET outcomes with which initializeSession has no session to offer.
BootFailures == {"nocookies", "noheaders", "error", "timeout"}

\* C11, as stated: when the GET of the portal root brings no cookies, hits a network
\* error or times out, initializeSession fails with an error (its promise rejects).
C11_BootstrapRejects ==
    boot.got \in BootFailures => bootstrapRes = "reject"

\* C11, amended: in those three cases initializeSession resolves to false, without
\* an error, and ensureValidSession returns that false.
C11_BootstrapResolvesFalse ==
    boot.got \in BootFailures =>
        /\ bootstrapRes = "false"
        /\ sessionReady = "false"
        /\ pc = ReturnPc

\* The GET timed out after cookies had been tried and found invalid.
C11_Witness ==
    /\ boot.got = "timeout"
    /\ validateRes = "false"
    /\ quickResp # NoResp
    /\ bootstrapRes = "false"

\* C12, as stated: an initializeSession that resolved to false has left the session
\* file as it was when it began.
C12_FailedBootstrapKeepsFile ==
    bootstrapRes = "false" => sessionFile = boot.file

\* C13: the request of fetchData carries combo 0,0,0,2 for Lok Sabha term 18,
\* 0,0,0,2,5 for Lok Sabha term 17 and 0,0,0,1 for Rajya Sabha whatever the term;
\* only the Lok Sabha 17 request carries the trailing discriminator.
C13_ComboCodes ==
    fPc = "sent" =>
        /\ (fArgs.house = "lok_sabha" /\ fArgs.lsTerm = "18") => fReq.combo = "0,0,0,2"
        /\ (fArgs.house = "lok_sabha" /\ fArgs.lsTerm = "17") => fReq.combo = "0,0,0,2,5"
        /\ fArgs.house = "rajya_sabha" => fReq.combo = "0,0,0,1"
        /\ fReq.combo = "0,0,0,2,5" <=> (fArgs.house = "lok_sabha" /\ fArgs.lsTerm = "17")

\* A Rajya Sabha request made with term 17.
C13_Witness ==
    /\ fPc = "sent"
    /\ fArgs.house = "rajya_sabha"
    /\ fArgs.lsTerm = "17"
    /\ fReq.combo = "0,0,0,1"

HoldsArray(v) == v.t = "array" \/ (v.t = "string" /\ v.dec = "array")

\* Whether a key of a response matches the requested key: equal to it, or one
\* contained in the other whatever the letter case.
KeyMatches(k, key) ==
    \/ k = key
    \/ includes(toLowerCase(k), toLowerCase(key))
    \/ includes(toLowerCase(key), toLowerCase(k))

\* The three shapes of a response from which fetch takes an array.
UsableShape(resp, key) ==
    /\ resp.net = "ok"
    /\ resp.parse = "ok"
    /\ \/ HoldsArray(resp.top)
       \/ /\ resp.top.t = "object"
          /\ \E i \in DOMAIN resp.fields :
                KeyMatches(resp.fields[i].k, key) /\ HoldsArray(resp.fields[i].v)

NoMatchingKey == "No matching data key found in API response"

\* C15, as stated: for a JSON response of none of the three shapes fetchData fails
\* with the error "no matching data key", and it never resolves to something that
\* is not an array taken from one of the three shapes.
C15_OtherShapeNoMatchingKey ==
    (fPc = "settled" /\ fResp.net = "ok" /\ fResp.parse = "ok") =>
        /\ fResult.ok => UsableShape(fResp, dataTypeMap(fArgs.dataType))
        /\ ~UsableShape(fResp, dataTypeMap(fArgs.dataType)) =>
               (~fResult.ok /\ fResult.error = NoMatchingKey)

\* The responses for which fetchData finds no value under a matching key: a parsed
\* body that holds no array itself and in which the key it picks, if any, holds null.
NothingPicked(resp, key) ==
    /\ resp.net = "ok"
    /\ resp.parse = "ok"
    /\ ~HoldsArray(resp.top)
    /\ \/ resp.top.t # "object"
       \/ \A i \in DOMAIN resp.fields : ~KeyMatches(resp.fields[i].k, key)
       \/ \E i \in DOMAIN resp.fields :
             /\ KeyMatches(resp.fields[i].k, key)
             /\ \A j \in 1..(i - 1) : ~KeyMatches(resp.fields[j].k, key)
             /\ resp.fields[i].v.t = "null"
             /\ \A j \in DOMAIN resp.fields :
                   resp.fields[j].k = key => ~resp.fields[j].v.truthy

\* C15, amended: fetchData resolves only to an array taken from one of the three
\* shapes and fails for every other response; the error is "no matching data key"
\* exactly when the body was parsed and no value was found under a matching key.
C15_OnlyArraysElseFails ==
    fPc = "settled" =>
        /\ fResult.ok => UsableShape(fResp, dataTypeMap(fArgs.dataType))
        /\ ~UsableShape(fResp, dataTypeMap(fArgs.dataType)) => ~fResult.ok
        /\ fResult.error = NoMatchingKey
             <=> NothingPicked(fResp, dataTypeMap(fArgs.dataType))

\* A response whose matching key holds a number: fetchData failed, with another error.
C15_Witness ==
    /\ fPc = "settled"
    /\ fResp.net = "ok"
    /\ fResp.top.t = "object"
    /\ Len(fResp.fields) = 1
    /\ fResp.fields[1].k = dataTypeMap(fArgs.dataType)
    /\ fResp.fields[1].v.t = "number"
    /\ ~fResult.ok
    /\ fResult.error # NoMatchingKey

\* C16: for an object whose only key is the requested key and holds a string that
\* encodes an array, fetchData resolves to the array decoded from that string.
C16_InnerStringDecoded ==
    (/\ fPc = "settled"
     /\ fResp.net = "ok"
     /\ fResp.parse = "ok"
     /\ fResp.top.t = "object"
     /\ Len(fResp.fields) = 1
     /\ fResp.fields[1].k = dataTypeMap(fArgs.dataType)
     /\ fResp.fields[1].v.t = "string"
     /\ fResp.fields[1].v.dec = "array")
        => (fResult.ok /\ fResult.data = fResp.fields[1].v.a)

\* {"Allocated Limit": "[{...}]"} answered to a request for allocated_limit.
C16_Witness ==
    /\ fPc = "settled"
    /\ fArgs.dataType = "allocated_limit"
    /\ fResp.top.t = "object"
    /\ Len(fResp.fields) = 1
    /\ fResp.fields[1] = Field(KeyAllocated, JStringOfArray(<<"row1">>))
    /\ fResult = Resolve(<<"row1">>)

\* The chambers a policy asks for, in the order of the cycle: <<house, term>>.
ChambersOf(policy) ==
    (IF policy \in {"18", "both"} THEN <<(<<"lok_sabha", "18">>)>> ELSE <<>>)
        \o (IF policy \in {"17", "both"} THEN <<(<<"lok_sabha", "17">>)>> ELSE <<>>)
        \o <<(<<"rajya_sabha", "18">>)>>

ComboOf(chamber) ==
    IF chamber[1] = "rajya_sabha" THEN "0,0,0,1"
    ELSE IF chamber[2] = "17" THEN "0,0,0,2,5" ELSE "0,0,0,2"

\* C17: after the session check the requests of a cycle are those of Lok Sabha 18
\* when the policy is "18" or "both", then of Lok Sabha 17 when it is "17" or
\* "both", then of Rajya Sabha, four each; a term the policy leaves out gets no
\* request and four empty sequences.
C17_TermSelection ==
    /\ pc = "fetch" =>
          /\ callIdx \in 1..Len(ChambersOf(lsTermOption))
          /\ req.combo = ComboOf(ChambersOf(lsTermOption)[callIdx])
          /\ req.key = dataTypeMap(dataTypes[kindIdx])
          /\ chamberReqs = 4 * (callIdx - 1) + kindIdx
    /\ (pc = "done" /\ outcome = "returned") =>
          /\ chamberReqs = 4 * Len(ChambersOf(lsTermOption))
          /\ lsTermOption \notin {"18", "both"} => lok18 = EmptyBucket
          /\ lsTermOption \notin {"17", "both"} => lok17 = EmptyBucket
          /\ DOMAIN lok18 = DataTypeSet
          /\ DOMAIN lok17 = DataTypeSet
          /\ DOMAIN rajyaSabhaData = DataTypeSet

\* A cycle with policy "17" that returned: eight requests, Lok Sabha 17 and Rajya
\* Sabha fetched with rows, Lok Sabha 18 left empty.
C17_Witness ==
    /\ pc = "done"
    /\ outcome = "returned"
    /\ lsTermOption = "17"
    /\ chamberReqs = 8
    /\ lok18 = EmptyBucket
    /\ lok17["works_completed"] # <<>>
    /\ rajyaSabhaData["expenditure"] # <<>>

\* Whether a name holds "total" in some letter case.
HoldsTotal(name) ==
    \E i \in 1..(Len(name) - 4) : toLowerCase(SubSeq(name, i, i + 4)) = StrTotal

\* A name that rules its row out: empty or blank, one character once trimmed, or
\* holding "total".
BadName(name) == Len(trim(name)) <= 1 \/ HoldsTotal(name)

\* The rows of a list that pass every filter of a kind of transform.
PassesFilters(row, call) ==
    /\ ~BadName(row.STATE_NAME)
    /\ ~BadName(row.MP_NAME)
    /\ call.transform = "works_completed" =>
          /\ row.ACTUAL_END_DATE # <<>>
          /\ row.ACTUAL_AMOUNT # <<>>
          /\ ~parseInt(row.WORK_RECOMMENDATION_DTL_ID).nan
          /\ parseInt(row.WORK_RECOMMENDATION_DTL_ID).n > 0
    /\ call.transform = "works_recommended" =>
          /\ row.RECOMMENDATION_DATE # <<>>
          /\ row.RECOMMENDED_AMOUNT # <<>>
          /\ ~parseInt(row.WORK_RECOMMENDATION_DTL_ID).nan
          /\ parseInt(row.WORK_RECOMMENDATION_DTL_ID).n > 0
          /\ parseInt(row.WORK_RECOMMENDATION_DTL_ID).n \notin call.completedWorkIds

Applied == rowCall # NoRowCall

\* C18: whichever of the four transforms is applied, no output record comes from a
\* row with a bad state name or MP name, and every row that passes the filters of
\* the transform has its record in the output.
C18_NameFilter ==
    Applied =>
        /\ \A j \in DOMAIN rowsOut :
              /\ ~BadName(rowsOut[j].row.STATE_NAME)
              /\ ~BadName(rowsOut[j].row.MP_NAME)
              /\ \E i \in DOMAIN rowsIn : rowsIn[i] = rowsOut[j].row
        /\ \A i \in DOMAIN rowsIn :
              PassesFilters(rowsIn[i], rowCall) =>
                  \E j \in DOMAIN rowsOut : rowsOut[j].row = rowsIn[i]

\* transformExpenditure applied to a subtotal row and a row it keeps.
C18_Witness ==
    /\ Applied
    /\ rowCall.transform = "expenditure"
    /\ rowsIn = <<RowTotal, RowNegative>>
    /\ Len(rowsOut) = 1
    /\ rowsOut[1].row = RowNegative

\* C19: every record of transformWorksCompleted and of transformWorksRecommended
\* has a work id greater than 0 and comes from a row whose date and amount (of
\* completion, of recommendation) are not empty.
C19_WorksHaveIdDateAmount ==
    /\ (Applied /\ rowCall.transform = "works_completed") =>
          \A j \in DOMAIN rowsOut :
              /\ rowsOut[j].workId > 0
              /\ rowsOut[j].row.ACTUAL_END_DATE # <<>>
              /\ rowsOut[j].row.ACTUAL_AMOUNT # <<>>
    /\ (Applied /\ rowCall.transform = "works_recommended") =>
          \A j \in DOMAIN rowsOut :
              /\ rowsOut[j].workId > 0
              /\ rowsOut[j].row.RECOMMENDATION_DATE # <<>>
              /\ rowsOut[j].row.RECOMMENDED_AMOUNT # <<>>

\* transformWorksCompleted applied to a row without a completion date and a row
\* with id " 7x": only the second gives a record, with work id 7.
C19_Witness ==
    /\ Applied
    /\ rowCall.transform = "works_completed"
    /\ rowsIn = <<RowNoDate, RowSeven>>
    /\ Len(rowsOut) = 1
    /\ rowsOut[1].workId = 7

\* C20: every record of a transform applied for Rajya Sabha carries the null term
\* whatever lsTerm was passed, and every record of one applied for Lok Sabha
\* carries the lsTerm passed.
C20_TermOnlyForLokSabha ==
    Applied =>
        \A j \in DOMAIN rowsOut :
            /\ rowCall.house = "Rajya Sabha" => rowsOut[j].lsTerm = Null
            /\ rowCall.house = "Lok Sabha" => rowsOut[j].lsTerm = rowCall.lsTerm

\* transformAllocatedLimit applied for Rajya Sabha with lsTerm '17'.
C20_Witness ==
    /\ Applied
    /\ rowCall.transform = "allocated_limit"
    /\ rowCall.house = "Rajya Sabha"
    /\ rowCall.lsTerm = "17"
    /\ rowsOut # <<>>
    /\ rowsOut[1].lsTerm = Null

\* Whether a file name has an extension: a dot followed by at least one character.
HasExtension(fileName) ==
    \E i \in DOMAIN fileName : fileName[i] = "." /\ i < Len(fileName)

\* The extension of a file name: what follows its last dot.
ExtensionOf(fileName) ==
    LET last == CHOOSE i \in DOMAIN fileName :
                    /\ fileName[i] = "."
                    /\ \A j \in DOMAIN fileName : fileName[j] = "." => j <= i
    IN  SubSeq(fileName, last + 1, Len(fileName))

\* C21: the key computed by upload is works/{workId}/{phase}/{attachmentId}_original.{ext},
\* where ext is the extension of fileName and is "jpg" when fileName has no extension.
C21_UploadKey ==
    stCall.op = "upload" =>
        stCall.r2Key =
            KeyStem(stCall.workId, stCall.phase, stCall.attachmentId)
                \o (IF HasExtension(stCall.fileName)
                    THEN ExtensionOf(stCall.fileName) ELSE ExtJpg)

\* The collection getWorkImages is given for a phase, and the flag of the phase.
CollectionOf(phase) == IF phase = "recommended" THEN "works_recommended" ELSE "works_completed"
FlagOf(phase) == IF phase = "recommended" THEN "1" ELSE "3"

\* The file names and attachment ids of an answer that holds files, in order.
NamesOf(item) == IF item.FILE_NAME.t = "arr" THEN item.FILE_NAME.v ELSE <<item.FILE_NAME.v>>
IdsOf(item) == IF item.ATTACH_ID.t = "arr" THEN item.ATTACH_ID.v ELSE <<item.ATTACH_ID.v>>

IsSentinel(resp) ==
    /\ resp.kind = "data" /\ resp.isArray /\ Len(resp.items) > 0
    /\ resp.items[1].FILE_NAME.t = "str" /\ resp.items[1].FILE_NAME.v = StrNA

HoldsFiles(resp) ==
    /\ resp.kind = "data" /\ resp.isArray /\ Len(resp.items) > 0
    /\ ~IsSentinel(resp)

\* C22: for either phase one request is sent, with flag 1 for recommended and flag 3
\* for completed; the "N/A" sentinel gives the empty list and no error; an answer
\* with files gives one descriptor per file name, descriptor i pairing FILE_NAME[i]
\* with ATTACH_ID[i].
C22_ResolveAttachments ==
    \A phase \in Phases :
        wiCall.collection = CollectionOf(phase) =>
            LET resp == wiCall.responses[1]
                list == wiCall.results[phase]
            IN  /\ Len(wiCall.requests) = 1
                /\ wiCall.requests[1] = AttachRequest(wiCall.workId, FlagOf(phase))
                /\ IsSentinel(resp) => (list = <<>> /\ ~wiCall.threw)
                /\ HoldsFiles(resp) =>
                      /\ Len(list) = Len(NamesOf(resp.items[1]))
                      /\ \A i \in DOMAIN list :
                            list[i] = Descriptor(NamesOf(resp.items[1])[i],
                                                 IdsOf(resp.items[1])[i])

\* Two files were looked up for the completed phase, and the second descriptor
\* pairs the second name with the second id.
C22_Witness ==
    /\ wiCall.collection = "works_completed"
    /\ wiCall.requests = <<AttachRequest(wiCall.workId, "3")>>
    /\ Len(wiCall.results.completed) = 2
    /\ wiCall.results.completed[2] = Descriptor(NamePng, 8)
    /\ wiCall.results.total = 2

\* The days from the day of the call to the day of the date it returned.
DaysAhead == DayOfYear(mdCall.date) - DayOfYear(mdCall.at)

\* The day of the week of a day of the year: 0 is Sunday, 1 is Monday.
WeekDay(dayOfYear) == (dayOfYear + 2) % 7

\* C23: calculateNextUpdate("weekly") returns 02:00 of the first Monday strictly
\* after the day of the call: 1 to 6 days ahead when that day is not a Monday,
\* exactly 7 days ahead when it is.
C23_WeeklyNextMonday ==
    (mdCall.op = "calculateNextUpdate" /\ mdCall.frequency = StrWeekly) =>
        /\ mdCall.date.hours = 2 /\ mdCall.date.minutes = 0
        /\ DaysAhead >= 1
        /\ WeekDay(DayOfYear(mdCall.date)) = 1
        /\ \A k \in 1..(DaysAhead - 1) : WeekDay(DayOfYear(mdCall.at) + k) # 1
        /\ IF WeekDay(DayOfYear(mdCall.at)) = 1
           THEN DaysAhead = 7 ELSE DaysAhead \in 1..6

\* Called on Wednesday 29 January at 23:59, it returned Monday 3 February 02:00.
C23_Witness ==
    /\ mdCall.op = "calculateNextUpdate" /\ mdCall.frequency = StrWeekly
    /\ mdCall.at = Date(0, 29, 23, 59)
    /\ mdCall.date = Date(1, 3, 2, 0)

\* C24: calculateNextUpdate returns 02:00 of the next calendar day for "daily",
\* 02:00 of the day 14 days ahead for "bi-weekly", and for a frequency it does not
\* know what it returns for "daily".
C24_DailyBiWeeklyDefault ==
    mdCall.op = "calculateNextUpdate" =>
        /\ mdCall.frequency = StrDaily =>
              (DaysAhead = 1 /\ mdCall.date.hours = 2 /\ mdCall.date.minutes = 0)
        /\ mdCall.frequency = StrBiWeekly =>
              (DaysAhead = 14 /\ mdCall.date.hours = 2 /\ mdCall.date.minutes = 0)
        /\ mdCall.frequency = StrMonthly =>
              mdCall.date = calculateNextUpdate(StrDaily, mdCall.at)

\* Called on 20 February with "bi-weekly", it returned 6 March 02:00.
C24_Witness ==
    /\ mdCall.op = "calculateNextUpdate" /\ mdCall.frequency = StrBiWeekly
    /\ mdCall.at = Date(1, 20, 2, 1)
    /\ mdCall.date = Date(2, 6, 2, 0)

\* C25: shouldUpdateData returns true when no sync metadata is stored; when metadata
\* is stored it returns true if and only if the time of the call is at or after the
\* stored next-update time.
C25_ShouldSync ==
    mdCall.op = "shouldUpdateData" =>
        IF \A i \in DOMAIN mdDocs : mdDocs[i].source # SourceLabel
        THEN mdCall.flag
        ELSE \E i \in DOMAIN mdDocs :
                /\ mdDocs[i].source = SourceLabel
                /\ mdCall.flag <=> getTime(mdCall.at) >= getTime(mdDocs[i].nextUpdate)

\* Asked at the very minute of the stored next update, it answered true.
C25_Witness ==
    /\ mdCall.op = "shouldUpdateData"
    /\ Len(mdDocs) = 1
    /\ mdCall.at = mdDocs[1].nextUpdate
    /\ mdCall.flag

\* C26: after any sequence of updateDataSyncMetadata calls the collection holds at
\* most one document with the source label, and right after a call that document is
\* the one the call built.
C26_SingletonMetadata ==
    /\ Cardinality({i \in DOMAIN mdDocs : mdDocs[i].source = SourceLabel}) <= 1
    /\ mdCall.op = "updateDataSyncMetadata" =>
          \E i \in DOMAIN mdDocs : mdDocs[i] = mdCall.doc

\* A second call, made later than the first, replaced the document of the first.
C26_Witness ==
    /\ mdCall.op = "updateDataSyncMetadata"
    /\ mdCall.updates = 2
    /\ mdDocs = <<mdCall.doc>>
    /\ mdCall.doc.lastUpdated = Date(1, 3, 13, 45)
    /\ mdCall.doc.updateFrequency = StrWeekly

\* C27: a cycle in which the fetch of a report kind failed does not end as a
\* successful cycle does: fetchAllData does not return its dataset.
C27_FailedKindFailsCycle ==
    (pc = "done" /\ lastFetch.kind # "none" /\ ~lastFetch.ok) => outcome # "returned"

\* The entries of the log for a step on image k of work w.
Logged(op, w, k) == {i \in DOMAIN plLog : plLog[i].op = op /\ plLog[i].w = w /\ plLog[i].k = k}

\* C28: when the download of an attachment fails, nothing is uploaded for that
\* attachment, and the run goes on: once it is over every work has been looked up
\* and every image to test of every work has been tried.
C28_FailedDownloadSkipsOnlyThatImage ==
    /\ \A i \in DOMAIN plLog :
          (plLog[i].op = "download" /\ ~plLog[i].ok) =>
              Logged("upload", plLog[i].w, plLog[i].k) = {}
    /\ plPc = "done" =>
          \A w \in DOMAIN testWorks :
              /\ Logged("images", w, 0) # {}
              /\ \A i \in Logged("images", w, 0) :
                    \A k \in 1..plLog[i].n : Logged("download", w, k) # {}

\* The first image of the first work failed to download; the second image of that
\* work and an image of the next work were then downloaded and uploaded.
C28_Witness ==
    /\ plPc = "done"
    /\ \E i \in Logged("download", 1, 1) : ~plLog[i].ok
    /\ \E i \in Logged("upload", 1, 2) : plLog[i].ok
    /\ \E i \in Logged("upload", 2, 1) : plLog[i].ok

\* C29: parseIndianNumber applied to the decimal string of its own result returns
\* that result, and it returns 0 for the empty text, "-", "--", "N/A", "null",
\* "undefined" and a text without a digit.
C29_IdempotentOnOutput ==
    pCall.op = "parseIndianNumber" =>
        /\ pCall.again = pCall.number
        /\ (trim(pIn) \in NumberSentinels \cup {<<>>} \/ \A i \in DOMAIN pIn : ~IsDigit(pIn[i]))
              => pCall.number = Zero

\* A DD-MMM-YYYY triad: a day, a month of the table and a year, between hyphens.
HasTriad(str) ==
    /\ Len(Split(trim(str), "-")) = 3
    /\ MonthOf(toLowerCase(SubSeq(Split(trim(str), "-")[2], 1,
                                  Min(4, Len(Split(trim(str), "-")[2]))))) # <<>>
    /\ ~parseInt(padStart(Split(trim(str), "-")[1])).nan
    /\ Split(trim(str), "-")[3] # <<>>

\* The text is one parseDate reads at all: not empty, not blank, not "N/A".
Given(str) == trim(str) # <<>> /\ str # StrNA

\* C30: parseDate returns what the ISO parse gives for every text in which no
\* DD-MMM-YYYY triad is found, and returns null only when neither the triad nor
\* the ISO parse can read the text.
C30_IsoFallback ==
    (pCall.op = "parseDate" /\ Given(pIn)) =>
        /\ ~HasTriad(pIn) =>
              (pCall.isNull = ParseIso(trim(pIn), pCall.east).isNull
               /\ pCall.text = ParseIso(trim(pIn), pCall.east).text)
        /\ pCall.isNull =>
              (ParseTriad(trim(pIn)).isNull /\ ParseIso(trim(pIn), pCall.east).isNull)

\* The value fetchData is to use of an object: the one under the key equal to the
\* requested key when the object has that key, else the one under the first key
\* that matches whatever the letter case, else null.
ValueToUse(fields, key) ==
    IF \E i \in DOMAIN fields : fields[i].k = key
    THEN fields[CHOOSE i \in DOMAIN fields : fields[i].k = key].v
    ELSE IF \E i \in DOMAIN fields : KeyMatches(fields[i].k, key)
    THEN fields[CHOOSE i \in DOMAIN fields :
                    /\ KeyMatches(fields[i].k, key)
                    /\ \A j \in 1..(i - 1) : ~KeyMatches(fields[j].k, key)].v
    ELSE JNull

\* C31: for a JSON-object response fetchData uses the value under the key equal to
\* the requested key whenever the object has that key, and the value under the first
\* key that matches as a case-insensitive substring only when it has no such key.
C31_ExactKeyBeforePartial ==
    (fPc = "settled" /\ fResp.net = "ok" /\ fResp.parse = "ok" /\ fResp.top.t = "object") =>
        fResult = UnwrapRaw(ValueToUse(fResp.fields, dataTypeMap(fArgs.dataType)))

\* The place of a report request in the order of a cycle, read off the request
\* itself: the chamber from its combo, the kind from its key.
ChamberRank(combo) ==
    CASE combo = "0,0,0,2" -> 1
      [] combo = "0,0,0,2,5" -> 2
      [] combo = "0,0,0,1" -> 3
      [] OTHER -> 0

KindRank(key) ==
    CASE key = KeyCompleted -> 1
      [] key = KeyRecommended -> 2
      [] key = KeyExpenditure -> 3
      [] key = KeyAllocated -> 4
      [] OTHER -> 0

\* A report request is issued in this step.
ReportIssued == chamberReqs' = chamberReqs + 1

\* The report request issued before this step, NoReq when there was none.
EarlierReport ==
    IF chamberReqs = 0 THEN NoReq
    ELSE LET call == HouseCalls(lsTermOption)[callIdx]
         IN fetchRequest(HouseOf(call), dataTypes[kindIdx], TermOf(call), sessionCookies)

\* C32: a report request is issued only when the earlier one has resolved (the
\* pause after it runs) or failed (in this very step), never while one is in
\* flight; the chambers come in the order Lok Sabha 18, Lok Sabha 17, Rajya Sabha
\* and within a chamber the kinds in the order completed, recommended,
\* expenditure, allocated limit.
C32_OneRequestAtATimeInOrder ==
    [][ReportIssued =>
          /\ req'.combo # "" /\ pc' = "fetch"
          /\ pc = "fetch" => (lastFetch' = [kind |-> dataTypes[kindIdx], ok |-> FALSE])
          /\ pc # "fetch" => (req = NoReq /\ (chamberReqs > 0 => pc = "sleep" /\ lastFetch.ok))
          /\ ChamberRank(req'.combo) > 0
          /\ IF chamberReqs = 0
             THEN KindRank(req'.key) = 1
             ELSE IF KindRank(EarlierReport.key) < 4
             THEN /\ req'.combo = EarlierReport.combo
                  /\ KindRank(req'.key) = KindRank(EarlierReport.key) + 1
             ELSE /\ ChamberRank(req'.combo) > ChamberRank(EarlierReport.combo)
                  /\ KindRank(req'.key) = 1
       ]_vars

\* The last request of a cycle over both terms: Rajya Sabha, allocated limit, the
\* twelfth request, in flight.
C32_Witness ==
    /\ pc = "fetch"
    /\ lsTermOption = "both"
    /\ chamberReqs = 12
    /\ req.combo = "0,0,0,1"
    /\ req.key = KeyAllocated

\* C33: within one fetchAllDataForHouse call every report request after the first
\* is issued at the end of a 1 s pause, whether the request before it resolved or
\* failed.
C33_PauseBetweenRequests ==
    [][(ReportIssued /\ chamberReqs > 0 /\ callIdx' = callIdx) => pc = "sleep"]_vars

\* The failures of a report request: no answer, a timeout, a body that is no JSON,
\* or a body from which no value is picked for the key.
FailedResponse(resp, key) ==
    \/ resp.net # "ok"
    \/ resp.parse # "ok"
    \/ /\ ~HoldsArray(resp.top)
       /\ \/ resp.top.t # "object"
          \/ \A i \in DOMAIN resp.fields : ~KeyMatches(resp.fields[i].k, key)

\* C34: one call of fetchData sends one request: the request is sent when the call
\* starts and at no other time, and whatever comes back settles the call; a
\* failure (network error, timeout, unparseable or unmatched response) rejects it
\* with that failure, and nothing is sent again.
C34_OneRequestNoRetry ==
    [][/\ fReq' # fReq => (fPc # "sent" /\ fPc' = "sent")
       /\ fPc = "sent" =>
            /\ fPc' = "settled"
            /\ fReq' = fReq
            /\ FailedResponse(fResp', dataTypeMap(fArgs.dataType)) =>
                  /\ ~fResult'.ok
                  /\ fResult'.error \in {"network error", "Timeout fetching",
                                         "Failed to parse API response",
                                         "No matching data key found in API response"}
      ]_vars

\* A call whose one request timed out has settled, rejected.
C34_Witness ==
    /\ fPc = "settled"
    /\ fResp = NetTimeout
    /\ fReq.key = dataTypeMap(fArgs.dataType)
    /\ ~fResult.ok

\* C35: the records of a transform come from rows of its input in the order of the
\* input, and a record made from a row without serial number (Sno 0 here) carries
\* as serial number its 1-based position in the output, the list of surviving rows.
C35_OrderAndSerialNumbers ==
    Applied =>
       /\ \E f \in [DOMAIN rowsOut -> DOMAIN rowsIn] :
             /\ \A i, j \in DOMAIN rowsOut : i < j => f[i] < f[j]
             /\ \A i \in DOMAIN rowsOut : rowsOut[i].row = rowsIn[f[i]]
       /\ \A i \in DOMAIN rowsOut :
             rowsOut[i].srNo = IF rowsOut[i].row.Sno # 0 THEN rowsOut[i].row.Sno ELSE i

\* A subtotal row is dropped and the row after it, which has no serial number and
\* is the second of the input, gets the serial number 1.
C35_Witness ==
    /\ Applied
    /\ rowCall.transform = "allocated_limit"
    /\ rowsIn = <<RowTotal, RowSeven>>
    /\ Len(rowsOut) = 1
    /\ rowsOut[1].row = RowSeven
    /\ rowsOut[1].srNo = 1

\* Two rows survive in the order of the input; the second, without serial number,
\* gets the serial number 2.
C35_WitnessOrder ==
    /\ Applied
    /\ rowsIn = <<RowFive, RowSeven>>
    /\ Len(rowsOut) = 2
    /\ rowsOut[1].srNo = 3
    /\ rowsOut[2].row = RowSeven
    /\ rowsOut[2].srNo = 2

\* C36: the backoff slept after failed attempt n (1 or 2) is at least 2000 ms times
\* 2^(n-1), at most 110% of that, and never above the cap of 10000 ms; the second
\* delay of a call is about twice its first (between 1.8 and 2.2 times).
C36_BackoffBounds ==
    /\ \A n \in DOMAIN dlDelays :
          /\ n \in {1, 2}
          /\ dlDelays[n] >= 2000 * Pow2(n - 1)
          /\ 10 * dlDelays[n] <= 11 * 2000 * Pow2(n - 1)
          /\ dlDelays[n] <= 10000
    /\ Len(dlDelays) = 2 =>
          /\ 10 * dlDelays[2] >= 18 * dlDelays[1]
          /\ 10 * dlDelays[2] <= 22 * dlDelays[1]

\* Two backoffs were slept: the first with the largest jitter, the second with none.
C36_Witness ==
    /\ Len(dlDelays) = 2
    /\ dlDelays[1] = 2199
    /\ dlDelays[2] = 4000
    /\ attempt = 3

\* C37: the next update stored by updateDataSyncMetadata is strictly later than the
\* time of the call, whatever the frequency; so shouldUpdateData, asked while that
\* metadata is stored, answers false at every time before the stored next update,
\* the time of the update itself included, and true from the next update on.
C37_SyncOnlyFromNextUpdate ==
    /\ \A i \in DOMAIN mdDocs :
          getTime(mdDocs[i].nextUpdate) > getTime(mdDocs[i].lastUpdated)
    /\ mdCall.op = "updateDataSyncMetadata" =>
          getTime(mdCall.doc.nextUpdate) > getTime(mdCall.at)
    /\ mdCall.op = "shouldUpdateData" =>
          \A i \in DOMAIN mdDocs :
             /\ getTime(mdCall.at) < getTime(mdDocs[i].nextUpdate) => ~mdCall.flag
             /\ getTime(mdCall.at) >= getTime(mdDocs[i].nextUpdate) => mdCall.flag
             /\ mdCall.at = mdDocs[i].lastUpdated => ~mdCall.flag

\* Asked right after an update made at 2 AM sharp, it answered false.
C37_Witness ==
    /\ mdCall.op = "shouldUpdateData"
    /\ Len(mdDocs) = 1
    /\ mdCall.at = mdDocs[1].lastUpdated
    /\ mdCall.at.hours = 2
    /\ ~mdCall.flag

\* Asked after the next update of a weekly schedule had passed, it answered true.
C37_WitnessLater ==
    /\ mdCall.op = "shouldUpdateData"
    /\ Len(mdDocs) = 1
    /\ mdDocs[1].updateFrequency = StrWeekly
    /\ getTime(mdCall.at) > getTime(mdDocs[1].nextUpdate)
    /\ mdCall.flag

\* The call of downloadImageData is over: it returned the bytes or threw.
DownloadOver == dlPc \in {"returned", "threw"}

\* C38: a call of downloadImageData whose requests all answer or fail ends: it
\* returns or throws, having sent at most 3 requests and slept at most 2 backoffs,
\* each of them between two requests, none after its last attempt.
C38_DownloadTerminates ==
    /\ [](/\ dlRequests <= 3
          /\ Len(dlDelays) <= 2
          /\ dlPc = "sleep" => (attempt < 3 /\ Len(dlDelays) = dlRequests)
          /\ DownloadOver => Len(dlDelays) = dlRequests - 1)
    /\ (dlPc = "request") ~> DownloadOver

\* The call threw after three requests and two backoffs.
C38_Witness ==
    /\ dlPc = "threw"
    /\ dlRequests = 3
    /\ Len(dlDelays) = 2
    /\ Len(dlErrors) = 3

\* An attachment-id request that fails: no usable answer came, the 404 that
\* getAttachmentIds takes for "no images" apart.
LookupFails(resp) == resp.kind # "data" /\ resp.status # 404

\* C39: getWorkImages never throws, and the total of its result is the number of
\* recommended descriptors plus the number of completed descriptors; when one of
\* its attachment-id requests fails both lists are empty and the total is 0, even
\* when the request of the other phase had brought files.
C39_NeverThrowsTotalIsSum ==
    wiCall.collection # "none" =>
       /\ ~wiCall.threw
       /\ wiCall.results.total =
             Len(wiCall.results.recommended) + Len(wiCall.results.completed)
       /\ (\E i \in DOMAIN wiCall.responses : LookupFails(wiCall.responses[i])) =>
             /\ wiCall.results.recommended = <<>>
             /\ wiCall.results.completed = <<>>
             /\ wiCall.results.total = 0

\* For a work of neither collection the request of flag 1 brought two files and
\* the request of flag 3 failed with HTTP 500: the result is empty.
C39_Witness ==
    /\ wiCall.collection = "other"
    /\ Len(wiCall.responses) = 2
    /\ HoldsFiles(wiCall.responses[1])
    /\ Len(NamesOf(wiCall.responses[1].items[1])) = 2
    /\ wiCall.responses[2] = AttachFailure(500)
    /\ wiCall.results = [recommended |-> <<>>, completed |-> <<>>, total |-> 0]

\* C40: in the mailing-list form, (a) once a submission has finished, however the
\* request ended, loading is false; (b) a submission with an empty e-mail sends no
\* subscribe request and leaves the state of the form as it was; (c) submitted
\* becomes true only when a request succeeds, and never becomes false again;
\* (d) a submission that sends a request has cleared the already-subscribed flag
\* and the inline error by the time the request is sent.
C40_MailingForm ==
    [][/\ mlPc' = "idle" => ~loading'
       /\ (mlSubmits' = mlSubmits + 1 /\ email = "") =>
             /\ mlSent' = mlSent
             /\ mlPc' = "idle"
             /\ UNCHANGED <<email, loading, submitted, alreadySubscribed, inlineError>>
       /\ (submitted' /\ ~submitted) => (mlPc = "pending" /\ mlAnswer'.ok)
       /\ submitted => submitted'
       /\ mlSent' # mlSent =>
             /\ mlSent' = mlSent + 1
             /\ mlSubmits' = mlSubmits + 1
             /\ email # ""
             /\ ~alreadySubscribed'
             /\ inlineError' = ""
             /\ loading'
             /\ mlPc' = "pending"
       /\ (mlSubmits' = mlSubmits + 1 /\ email # "") => mlSent' = mlSent + 1
      ]_vars

\* Three submissions: one with an empty e-mail, one whose request was refused, one
\* whose request succeeded; the form is submitted, not loading, and shows neither
\* the already-subscribed note nor an error.
C40_Witness ==
    /\ mlSubmits = 3
    /\ mlSent = 2
    /\ submitted
    /\ mlAnswer.ok
    /\ ~loading
    /\ ~alreadySubscribed
    /\ inlineError = ""
    /\ mlPc = "idle"

\* A request answered 409 has finished: the note is shown and loading is false.
C40_WitnessConflict ==
    /\ mlPc = "idle"
    /\ mlAnswer.status = 409
    /\ alreadySubscribed
    /\ ~loading
    /\ ~submitted

=============================================================================
